---- MODULE Spec2Model ----
(***************************************************************************)
(* Label lifecycle and naming core of label_backend_server.                *)
(*                                                                         *)
(* A label name is modelled as the sequence of its space-separated words   *)
(* ("Invoice Copy 2" is <<"Invoice", "Copy", "2">>); the string is the     *)
(* words joined by single spaces, so two names are the same string exactly *)
(* when they are the same sequence.  Numbers are formatted with ToString   *)
(* and parsed back by ParseNumber.                                         *)
(***************************************************************************)
EXTENDS Integers, Sequences, FiniteSets, TLC

VARIABLES
    labels,     \* the labels table: label id -> row, or NoLabel
    nextId,     \* the next fresh label id
    now,        \* the clock read by "new Date()" and by the URL signer; it
                \* advances as each request arrives
    blobs,      \* the thumbnails bucket: <<label id, file name>> -> bytes
    storageOk,  \* whether calls to the blob store succeed
    cache,      \* the entries [key, value] currently held by CacheManager
    thumbnailCache, \* ThumbnailService.thumbnailCache: <<label id, size>> entries
    req,        \* the requests in progress: slot -> handler frame
    nm          \* the naming engine driven on its own (SpecNaming)

vars == <<labels, nextId, now, blobs, storageOk, cache, thumbnailCache, req, nm>>

(***************************************************************************)
(* Bounds of the model.                                                    *)
(***************************************************************************)
MaxSuffix == 6      \* largest numeric suffix ParseNumber recognises
MaxCalls == 3       \* naming calls chained in SpecNaming
MaxExisting == 3    \* size of the initial sibling-name set in SpecNaming
MaxLabels == 3      \* label rows the store may hold
MaxNow == 3         \* clock value after which no further request arrives
MaxSlots == 2       \* requests in progress at once
MaxCount == 3       \* largest count, and number of items, of a bulk request

(***************************************************************************)
(* NamingEngine (utils/labelNaming).                                       *)
(***************************************************************************)
DefaultBaseName == <<"New", "Label">>

NamesOf(existingLabels) == {l.name : l \in existingLabels}

Numbered(baseName, k) == Append(baseName, ToString(k))

IsNumber(word) == \E k \in 1..MaxSuffix : word = ToString(k)

ParseNumber(word) == CHOOSE k \in 1..MaxSuffix : word = ToString(k)

RECURSIVE UniqueFrom(_, _, _)
UniqueFrom(names, baseName, k) ==
    IF Numbered(baseName, k) \in names
    THEN UniqueFrom(names, baseName, k + 1)
    ELSE Numbered(baseName, k)

\* A plausible slip: the search starts at the number of siblings plus one
\* without testing whether that name is taken.
generateUniqueLabelByCount(existingLabels, baseName) ==
    Numbered(baseName, Cardinality(NamesOf(existingLabels)) + 1)

generateUniqueLabel(existingLabels, baseName) ==
    UniqueFrom(NamesOf(existingLabels), baseName, 1)

CopyName(stem, n) ==
    IF n = 1 THEN Append(stem, "Copy") ELSE Append(stem, "Copy") \o <<ToString(n)>>

\* originalName is "<stem> Copy"
EndsWithCopy(name) == Len(name) >= 2 /\ name[Len(name)] = "Copy"

\* originalName is "<stem> Copy <n>"
EndsWithCopyN(name) ==
    /\ Len(name) >= 3
    /\ name[Len(name) - 1] = "Copy"
    /\ IsNumber(name[Len(name)])

CopyStem(name) ==
    IF EndsWithCopyN(name) THEN SubSeq(name, 1, Len(name) - 2)
    ELSE IF EndsWithCopy(name) THEN SubSeq(name, 1, Len(name) - 1)
    ELSE name

CopyNumber(name) ==
    IF EndsWithCopyN(name) THEN ParseNumber(name[Len(name)])
    ELSE IF EndsWithCopy(name) THEN 1
    ELSE 0

RECURSIVE CopyFrom(_, _, _)
CopyFrom(names, stem, n) ==
    IF CopyName(stem, n) \in names
    THEN CopyFrom(names, stem, n + 1)
    ELSE CopyName(stem, n)

\* A plausible slip: the suffix is appended without looking at the original's
\* own "Copy" suffix.
generateCopyNameAppend(originalName, existingLabels) ==
    CopyFrom(NamesOf(existingLabels), originalName, 1)

generateCopyName(originalName, existingLabels) ==
    CopyFrom(NamesOf(existingLabels), CopyStem(originalName),
             CopyNumber(originalName) + 1)

(***************************************************************************)
(* Data model (prisma/schema.prisma) and the values requests carry.        *)
(***************************************************************************)
Users == {"u1", "u2"}

\* projects table: id -> owning user
ProjectOwner == [p1 |-> "u1", p2 |-> "u2"]

Projects == DOMAIN ProjectOwner

LabelIds == 1..MaxLabels

\* A thumbnail column value <<kind, label, size, ext, tag>>.  kind is "null", "undefined" (absent from a
\* request body), "data" (a data:image/ URL carrying image `tag`), "url" (a
\* signed storage URL, the only kind containing "supabase.co"), "path" (a bare
\* storage path) or "text" (any other string).
Thumb(kind, label, size, ext, tag) == <<kind, label, size, ext, tag>>

Kind(thumbnail) == thumbnail[1]

Tag(thumbnail) == thumbnail[5]

NoThumb == Thumb("null", 0, "", "", 0)

Undefined == Thumb("undefined", 0, "", "", 0)

DataURL(img) == Thumb("data", 0, "", "", img)

TextThumb == Thumb("text", 0, "", "", 0)

SignedUrl(label, size, ext, at) == Thumb("url", label, size, ext, at)

StoragePath(label, size, ext) == Thumb("path", label, size, ext, 0)

\* model Label: @default(100), @default(50), @default(1)
DefaultWidth == 100

DefaultHeight == 50

InitialVersion == 1

DefaultFabricData == "empty canvas"

NoLabel ==
    [name |-> <<>>, description |-> "", projectId |-> "", fabricData |-> "",
     thumbnail |-> NoThumb, width |-> 0, height |-> 0, version |-> 0,
     updatedAt |-> 0]

Exists(id) == labels[id].projectId # ""

\* prisma.label.findFirst({ where: { id, project: { userId } } })
FindOwned(id, userId) ==
    IF id \in LabelIds /\ Exists(id) /\ ProjectOwner[labels[id].projectId] = userId
    THEN labels[id] ELSE NoLabel

\* a lookup by id alone, without the userId condition
OwnsAnyProject(userId, projectId) ==
    projectId \in Projects

\* prisma.project.findFirst({ where: { id: projectId, userId } })
OwnsProject(userId, projectId) ==
    projectId \in Projects /\ ProjectOwner[projectId] = userId

\* prisma.label.findMany({ where: { projectId }, select: { id, name } })
FindLabels(projectId) ==
    {[id |-> id, name |-> labels[id].name] :
        id \in {i \in LabelIds : labels[i].projectId = projectId}}

\* A request body.  A field the body does not carry holds its "absent" value:
\* <<>> for name, "undefined" for description and fabricData, 0 for width,
\* height and count, Undefined for thumbnail, NoVersion for version.
NoVersion == 0 - 1

NoBody ==
    [name |-> <<>>, description |-> "undefined", width |-> 0, height |-> 0,
     fabricData |-> "undefined", thumbnail |-> Undefined, version |-> NoVersion,
     count |-> 0, items |-> <<>>]

\* The frame of a request handler: its inputs, its locals, where it stands,
\* and the response once sent (status 0 until then).
Idle ==
    [op |-> "idle", pc |-> "done", user |-> "", projectId |-> "", labelId |-> 0,
     size |-> "", body |-> NoBody, existingLabel |-> NoLabel,
     thumbnailData |-> Undefined, url |-> NoThumb, existingLabels |-> {},
     i |-> 0, created |-> <<>>, status |-> 0, error |-> "",
     currentVersion |-> 0, data |-> <<>>,
     v0 |-> 0,   \* history: the target's stored version as the request arrived
     S |-> {},   \* history: the project's label names as the request arrived
     pre |-> <<>>,   \* history: the project's label names before each insert
     from |-> <<>>,  \* history: the names read for each insert's naming
     need |-> 0,     \* inserts the request has still to make
     miss |-> ""]    \* history: why the ownership check failed, if it did

Reply(f, status, error) == [f EXCEPT !.pc = "done", !.status = status, !.error = error]

\* the label, or for an operation on a project the project, is in the store
TargetExists(f) ==
    IF f.labelId # 0 THEN f.labelId \in LabelIds /\ Exists(f.labelId)
    ELSE f.projectId \in Projects

\* an answer that tells a target of another user from a missing one
NotFoundOrForbidden(f, status) ==
    IF TargetExists(f)
    THEN [Reply(f, 403, "FORBIDDEN") EXCEPT !.need = 0, !.miss = "foreign"]
    ELSE [Reply(f, status, "NOT_FOUND") EXCEPT !.need = 0, !.miss = "missing"]

\* the answer when findFirst({ id, userId / project: { userId } }) finds nothing
NotFound(f, status) ==
    [Reply(f, status, "NOT_FOUND") EXCEPT
        !.need = 0,
        !.miss = IF TargetExists(f) THEN "foreign" ELSE "missing"]

\* CacheManager keys are colon-separated; a key is the sequence of its parts.
ProjectsKey(userId) == <<"projects", userId, "1", "10", "all">>

\* the pattern `<prefix>:*`: the key goes on after the prefix
HasPrefix(key, prefix) ==
    Len(key) > Len(prefix) /\ SubSeq(key, 1, Len(prefix)) = prefix

\* an entry of the cache: the key and the value stored under it
Entry(key, value) == [key |-> key, value |-> value]

\* CacheManager.set(key, value): the value replaces the one under the key
CacheSet(c, key, value) == {e \in c : e.key # key} \cup {Entry(key, value)}

\* CacheManager.get(key): the values under the key (none on a miss)
CacheGet(c, key) == {e.value : e \in {x \in c : x.key = key}}

CacheDelete(c, key) == {e \in c : e.key # key}

CacheDeletePattern(c, prefix) == {e \in c : ~HasPrefix(e.key, prefix)}

\* what getProjects puts in its response for a user: of every label of the
\* user's projects the selected columns id, name, updatedAt
Listing(rows, userId) ==
    {<<id, rows[id].name, rows[id].updatedAt>> :
        id \in {i \in DOMAIN rows : rows[i].projectId # ""
                                     /\ ProjectOwner[rows[i].projectId] = userId}}

(***************************************************************************)
(* Blob store (StorageManager over the thumbnails bucket).                 *)
(* An object is [label, size, ext, bytes]: the file labels/<label>/<size>. *)
(* <ext> holding image `bytes`.                                            *)
(***************************************************************************)
Blob(label, size, ext, bytes) ==
    [label |-> label, size |-> size, ext |-> ext, bytes |-> bytes]

BlobsAt(store, label, size, ext) ==
    {b \in store : b.label = label /\ b.size = size /\ b.ext = ext}

\* supabase .list(`labels/${labelId}`) then .remove(paths); a failing store
\* answers the list with no data, so nothing is removed and nothing is thrown
deleteLabelThumbnails(store, ok, labelId) ==
    IF ok THEN {b \in store : b.label # labelId} ELSE store

\* only the files whose name starts with `${size}.` or `${size}_`
cleanupOldThumbnails(store, ok, labelId, size) ==
    IF ok THEN {b \in store : ~(b.label = labelId /\ b.size = size)} ELSE store

\* .upload(path, file, { upsert: true })
Upload(store, label, size, ext, bytes) ==
    (store \ BlobsAt(store, label, size, ext)) \cup {Blob(label, size, ext, bytes)}

\* .createSignedUrl(path, 3600): fails when the store fails or holds no object
CanSign(store, ok, label, size, ext) ==
    ok /\ BlobsAt(store, label, size, ext) # {}

(***************************************************************************)
(* updateLabel (project.controller).                                       *)
(***************************************************************************)
Slots == 1..MaxSlots

SetReq(r, f) == req' = [req EXCEPT ![r] = f]

Free(r) == req[r].pc = "done" /\ now < MaxNow

\* updateLabelSchema: Joi.object({ name, description, width, height,
\* fabricData, thumbnail, status }) rejects a body with any other key
updateLabelSchema(body) ==
    body.version = NoVersion /\ body.count = 0 /\ body.items = <<>>

\* `value.version && existingLabel.version !== value.version`
VersionConflict(body, existingLabel) ==
    /\ body.version # NoVersion
    /\ body.version # 0
    /\ existingLabel.version # body.version

\* data: { ...updateData, thumbnail: thumbnailData, updatedAt: new Date(),
\*         version: { increment: 1 } }; undefined fields are left alone
UpdatedRowNoIncrement(row, body, thumbnailData, at) ==
    [row EXCEPT
        !.name = IF body.name = <<>> THEN @ ELSE body.name,
        !.description = IF body.description = "undefined" THEN @ ELSE body.description,
        !.width = IF body.width = 0 THEN @ ELSE body.width,
        !.height = IF body.height = 0 THEN @ ELSE body.height,
        !.fabricData = IF body.fabricData = "undefined" THEN @ ELSE body.fabricData,
        !.thumbnail = IF Kind(thumbnailData) = "undefined" THEN @ ELSE thumbnailData,
        !.updatedAt = at]

UpdatedRow(row, body, thumbnailData, at) ==
    [UpdatedRowNoIncrement(row, body, thumbnailData, at) EXCEPT !.version = @ + 1]

StartUpdateLabel(r, userId, labelId, body) ==
    /\ Free(r)
    /\ LET f == [Idle EXCEPT !.op = "updateLabel", !.user = userId,
                             !.labelId = labelId, !.body = body,
                             !.v0 = labels[labelId].version]
       IN IF updateLabelSchema(body)
          THEN SetReq(r, [f EXCEPT !.pc = "find"])
          ELSE SetReq(r, Reply(f, 400, "VALIDATION"))
    /\ UNCHANGED <<labels, nextId, blobs, storageOk, cache, thumbnailCache, nm>>
    /\ now' = now + 1

\* findFirst, the version check, and the choice of the thumbnail path
UpdateFind(r) ==
    /\ req[r].op = "updateLabel" /\ req[r].pc = "find"
    /\ LET f == req[r]
           existingLabel == FindOwned(f.labelId, f.user)
           g == [f EXCEPT !.existingLabel = existingLabel,
                          !.thumbnailData = f.body.thumbnail,
                          !.url = existingLabel.thumbnail]
       IN IF existingLabel = NoLabel
          THEN SetReq(r, NotFound(f, 404))
          ELSE IF VersionConflict(f.body, existingLabel)
          THEN SetReq(r, [Reply(f, 409, "VERSION_CONFLICT")
                            EXCEPT !.currentVersion = existingLabel.version])
          ELSE IF Kind(f.body.thumbnail) = "data"
          THEN SetReq(r, [g EXCEPT !.pc =
                    IF Kind(existingLabel.thumbnail) = "url"
                    THEN "deleteOld" ELSE "cleanup"])
          ELSE SetReq(r, [g EXCEPT !.pc = "cache"])
    /\ UNCHANGED <<labels, nextId, now, blobs, storageOk, cache, thumbnailCache, nm>>

UpdateDeleteOld(r) ==
    /\ req[r].op = "updateLabel" /\ req[r].pc = "deleteOld"
    /\ blobs' = deleteLabelThumbnails(blobs, storageOk, req[r].labelId)
    /\ SetReq(r, [req[r] EXCEPT !.pc = "cleanup"])
    /\ UNCHANGED <<labels, nextId, now, storageOk, cache, thumbnailCache, nm>>

\* StorageManager.uploadThumbnail, first half: cleanupOldThumbnails(labelId, 'md')
UpdateCleanup(r) ==
    /\ req[r].op = "updateLabel" /\ req[r].pc = "cleanup"
    /\ blobs' = cleanupOldThumbnails(blobs, storageOk, req[r].labelId, "md")
    /\ SetReq(r, [req[r] EXCEPT !.pc = "upload"])
    /\ UNCHANGED <<labels, nextId, now, storageOk, cache, thumbnailCache, nm>>

\* an upload step whose failure is not caught: the request is answered 500
UpdateUploadUncaught(r) ==
    /\ req[r].op = "updateLabel" /\ req[r].pc = "upload"
    /\ LET f == req[r]
       IN IF storageOk
          THEN /\ blobs' = Upload(blobs, f.labelId, "md", "png", Tag(f.thumbnailData))
               /\ SetReq(r, [f EXCEPT !.pc = "cache",
                        !.url = SignedUrl(f.labelId, "md", "png", now),
                        !.thumbnailData = SignedUrl(f.labelId, "md", "png", now)])
          ELSE /\ blobs' = blobs
               /\ SetReq(r, Reply(f, 500, "INTERNAL"))
    /\ UNCHANGED <<labels, nextId, now, storageOk, cache, thumbnailCache, nm>>

\* StorageManager.uploadThumbnail, second half: uploadFile to
\* labels/<id>/md.png and the signed URL; a failure is caught by the handler,
\* which keeps the data URL
UpdateUpload(r) ==
    /\ req[r].op = "updateLabel" /\ req[r].pc = "upload"
    /\ LET f == req[r]
       IN IF storageOk
          THEN /\ blobs' = Upload(blobs, f.labelId, "md", "png", Tag(f.thumbnailData))
               /\ SetReq(r, [f EXCEPT !.pc = "cache",
                        !.url = SignedUrl(f.labelId, "md", "png", now),
                        !.thumbnailData = SignedUrl(f.labelId, "md", "png", now)])
          ELSE /\ blobs' = blobs
               /\ SetReq(r, [f EXCEPT !.pc = "cache"])
    /\ UNCHANGED <<labels, nextId, now, storageOk, cache, thumbnailCache, nm>>

\* a cache step that also deletes the label's thumbnail objects
UpdateCacheThenDelete(r) ==
    /\ req[r].op = "updateLabel" /\ req[r].pc = "cache"
    /\ cache' = CacheDeletePattern(
                  CacheDelete(CacheDelete(cache, <<"label", ToString(req[r].labelId)>>),
                              <<"project", req[r].existingLabel.projectId>>),
                  <<"projects", req[r].user>>)
    /\ blobs' = deleteLabelThumbnails(blobs, storageOk, req[r].labelId)
    /\ SetReq(r, [req[r] EXCEPT !.pc = "write"])
    /\ UNCHANGED <<labels, nextId, now, storageOk, thumbnailCache, nm>>

UpdateCache(r) ==
    /\ req[r].op = "updateLabel" /\ req[r].pc = "cache"
    /\ cache' = CacheDeletePattern(
                  CacheDelete(CacheDelete(cache, <<"label", ToString(req[r].labelId)>>),
                              <<"project", req[r].existingLabel.projectId>>),
                  <<"projects", req[r].user>>)
    /\ SetReq(r, [req[r] EXCEPT !.pc = "write"])
    /\ UNCHANGED <<labels, nextId, now, blobs, storageOk, thumbnailCache, nm>>

\* prisma.label.update({ where: { id: labelId }, ... }) and the 200 response;
\* a row deleted meanwhile makes the update throw
UpdateWrite(r) ==
    /\ req[r].op = "updateLabel" /\ req[r].pc = "write"
    /\ LET f == req[r]
           row == UpdatedRow(labels[f.labelId], f.body, f.thumbnailData, now)
       IN IF Exists(f.labelId)
          THEN /\ labels' = [labels EXCEPT ![f.labelId] = row]
               /\ SetReq(r, Reply(f, 200, ""))
          ELSE /\ UNCHANGED labels
               /\ SetReq(r, Reply(f, 500, "INTERNAL"))
    /\ UNCHANGED <<nextId, now, blobs, storageOk, cache, thumbnailCache, nm>>

(***************************************************************************)
(* ThumbnailService, LabelService and the thumbnail handlers.              *)
(***************************************************************************)
CachedUrls(labelId, size) ==
    {e.url : e \in {c \in thumbnailCache : c.label = labelId /\ c.size = size}}

\* The outcomes of ThumbnailService.getThumbnailUrl as <<url, cache'>> pairs:
\* an unexpired cached URL (whether an entry has expired is up to the wall
\* clock, so both cases are outcomes), or a fresh signed URL for
\* labels/<id>/<size>.png, which is then cached, or null.
getThumbnailUrl(labelId, size) ==
    {<<u, thumbnailCache>> : u \in CachedUrls(labelId, size)}
    \cup
    {IF CanSign(blobs, storageOk, labelId, size, "png")
     THEN <<SignedUrl(labelId, size, "png", now),
            {c \in thumbnailCache : ~(c.label = labelId /\ c.size = size)}
              \cup {[label |-> labelId, size |-> size,
                     url |-> SignedUrl(labelId, size, "png", now)]}>>
     ELSE <<NoThumb, thumbnailCache>>}

\* data: { thumbnail, updatedAt: new Date() } -- the version is not touched
WithThumbnail(row, thumbnail, at) ==
    [row EXCEPT !.thumbnail = thumbnail, !.updatedAt = at]

StartRefreshThumbnailUrl(r, userId, labelId, size) ==
    /\ Free(r)
    /\ SetReq(r, [Idle EXCEPT !.op = "refreshThumbnailUrl", !.pc = "find",
                              !.user = userId, !.labelId = labelId, !.size = size])
    /\ UNCHANGED <<labels, nextId, blobs, storageOk, cache, thumbnailCache, nm>>
    /\ now' = now + 1

RefreshFind(r) ==
    /\ req[r].op = "refreshThumbnailUrl" /\ req[r].pc = "find"
    /\ LET f == req[r]
           existingLabel == FindOwned(f.labelId, f.user)
       IN IF existingLabel = NoLabel
          THEN SetReq(r, NotFound(f, 404))
          ELSE SetReq(r, [f EXCEPT !.pc = "getUrl", !.existingLabel = existingLabel])
    /\ UNCHANGED <<labels, nextId, now, blobs, storageOk, cache, thumbnailCache, nm>>

RefreshGetUrl(r) ==
    /\ req[r].op = "refreshThumbnailUrl" /\ req[r].pc = "getUrl"
    /\ \E out \in getThumbnailUrl(req[r].labelId, req[r].size) :
        /\ thumbnailCache' = out[2]
        /\ IF out[1] = NoThumb
           THEN SetReq(r, Reply(req[r], 404, "THUMBNAIL_NOT_FOUND"))
           ELSE SetReq(r, [req[r] EXCEPT !.pc = "write", !.url = out[1]])
    /\ UNCHANGED <<labels, nextId, now, blobs, storageOk, cache, nm>>

\* prisma.label.update({ data: { thumbnail: newThumbnailUrl, updatedAt } }),
\* then the three cache deletions and the 200 response
RefreshWrite(r) ==
    /\ req[r].op = "refreshThumbnailUrl" /\ req[r].pc = "write"
    /\ LET f == req[r]
           row == WithThumbnail(labels[f.labelId], f.url, now)
       IN IF Exists(f.labelId)
          THEN /\ labels' = [labels EXCEPT ![f.labelId] = row]
               /\ cache' = CacheDeletePattern(
                     CacheDelete(CacheDelete(cache, <<"label", ToString(f.labelId)>>),
                                 <<"project", f.existingLabel.projectId>>),
                     <<"projects", f.user>>)
               /\ SetReq(r, Reply(f, 200, ""))
          ELSE /\ UNCHANGED <<labels, cache>>
               /\ SetReq(r, Reply(f, 500, "INTERNAL"))
    /\ UNCHANGED <<nextId, now, blobs, storageOk, thumbnailCache, nm>>

\* generateThumbnail handler (labelManagement.controller): body { dataURL, size }
StartGenerateThumbnail(r, userId, labelId, dataURL, size) ==
    /\ Free(r)
    /\ SetReq(r, [Idle EXCEPT !.op = "generateThumbnail", !.pc = "find",
                              !.user = userId, !.labelId = labelId, !.size = size,
                              !.thumbnailData = dataURL])
    /\ UNCHANGED <<labels, nextId, blobs, storageOk, cache, thumbnailCache, nm>>
    /\ now' = now + 1

GenerateFind(r) ==
    /\ req[r].op = "generateThumbnail" /\ req[r].pc = "find"
    /\ LET f == req[r]
           label == FindOwned(f.labelId, f.user)
       IN IF label = NoLabel
          THEN SetReq(r, NotFound(f, 404))
          ELSE SetReq(r, [f EXCEPT !.pc = "upload", !.existingLabel = label])
    /\ UNCHANGED <<labels, nextId, now, blobs, storageOk, cache, thumbnailCache, nm>>

\* ThumbnailService.generateThumbnail up to the upload: getLabelById, then
\* uploadFile to labels/<id>/<size>.webp; any failure makes it return false
\* and the handler answer 500
GenerateUpload(r) ==
    /\ req[r].op = "generateThumbnail" /\ req[r].pc = "upload"
    /\ LET f == req[r]
       IN IF Exists(f.labelId) /\ storageOk
          THEN /\ blobs' = Upload(blobs, f.labelId, f.size, "webp", Tag(f.thumbnailData))
               /\ SetReq(r, [f EXCEPT !.pc = "write"])
          ELSE /\ blobs' = blobs
               /\ SetReq(r, Reply(f, 500, "INTERNAL"))
    /\ UNCHANGED <<labels, nextId, now, storageOk, cache, thumbnailCache, nm>>

\* LabelService.updateThumbnail(labelId, path) (its failure is swallowed) and
\* thumbnailCache.delete(cacheKey)
GenerateWrite(r) ==
    /\ req[r].op = "generateThumbnail" /\ req[r].pc = "write"
    /\ LET f == req[r]
       IN /\ IF Exists(f.labelId)
             THEN labels' = [labels EXCEPT ![f.labelId] =
                         WithThumbnail(@, StoragePath(f.labelId, f.size, "webp"), now)]
             ELSE UNCHANGED labels
          /\ thumbnailCache' =
                {c \in thumbnailCache : ~(c.label = f.labelId /\ c.size = f.size)}
          /\ SetReq(r, [f EXCEPT !.pc = "getUrl"])
    /\ UNCHANGED <<nextId, now, blobs, storageOk, cache, nm>>

\* back in the handler: getThumbnailUrl, the cache deletions, the 200 response
GenerateReply(r) ==
    /\ req[r].op = "generateThumbnail" /\ req[r].pc = "getUrl"
    /\ LET f == req[r]
       IN \E out \in getThumbnailUrl(f.labelId, f.size) :
            /\ thumbnailCache' = out[2]
            /\ cache' = CacheDeletePattern(
                  CacheDelete(CacheDelete(cache, <<"label", ToString(f.labelId)>>),
                              <<"project", f.existingLabel.projectId>>),
                  <<"projects", f.user>>)
            /\ SetReq(r, [Reply(f, 200, "") EXCEPT !.url = out[1]])
    /\ UNCHANGED <<labels, nextId, now, blobs, storageOk, nm>>

\* LabelService.updateLabelData(id, fabricData): a service call, no handler
\* frame; data: { fabricData, updatedAt: new Date() }
UpdateLabelData(id, fabricData) ==
    /\ now < MaxNow
    /\ Exists(id)
    /\ labels' = [labels EXCEPT ![id].fabricData = fabricData, ![id].updatedAt = now]
    /\ now' = now + 1
    /\ UNCHANGED <<nextId, blobs, storageOk, cache, thumbnailCache, req, nm>>

\* getProjects: a cache miss reads the store and caches the listing under
\* projects:<userId>:<page>:<limit>:<search>
GetProjects(userId) ==
    /\ now < MaxNow
    /\ CacheGet(cache, ProjectsKey(userId)) = {}
    /\ cache' = CacheSet(cache, ProjectsKey(userId), Listing(labels, userId))
    /\ now' = now + 1
    /\ UNCHANGED <<labels, nextId, blobs, storageOk, thumbnailCache, req, nm>>

\* getProjects as the handler runs it: CacheManager.get, on a miss the two
\* store queries, CacheManager.set, the 200 response
StartGetProjects(r, userId) ==
    /\ Free(r)
    /\ SetReq(r, [Idle EXCEPT !.op = "getProjects", !.pc = "get", !.user = userId])
    /\ now' = now + 1
    /\ UNCHANGED <<labels, nextId, blobs, storageOk, cache, thumbnailCache, nm>>

\* `if (cached) return res.status(200).json({ data: cached, cached: true })`
GetProjectsGet(r) ==
    /\ req[r].op = "getProjects" /\ req[r].pc = "get"
    /\ LET f == req[r]
           cached == CacheGet(cache, ProjectsKey(f.user))
       IN IF cached # {}
          THEN \E result \in cached :
                  SetReq(r, [Reply(f, 200, "") EXCEPT !.data = <<result>>,
                                                     !.from = <<"cache">>])
          ELSE SetReq(r, [f EXCEPT !.pc = "query"])
    /\ UNCHANGED <<labels, nextId, now, blobs, storageOk, cache, thumbnailCache, nm>>

\* an updateLabel or deleteLabel request that has deleted the cache entries
\* and has its durable write still to make
Invalidated(f) ==
    \/ f.op = "updateLabel" /\ f.pc = "write"
    \/ f.op = "deleteLabel" /\ f.pc = "delete"

\* Promise.all([prisma.project.findMany(...), prisma.project.count(...)]); the
\* frame keeps in `S` the slots whose request was Invalidated at this moment
GetProjectsQuery(r) ==
    /\ req[r].op = "getProjects" /\ req[r].pc = "query"
    /\ SetReq(r, [req[r] EXCEPT !.data = <<Listing(labels, req[r].user)>>,
                                !.from = <<"store">>, !.pc = "set",
                                !.S = {q \in Slots : Invalidated(req[q])}])
    /\ UNCHANGED <<labels, nextId, now, blobs, storageOk, cache, thumbnailCache, nm>>

\* await CacheManager.set(cacheKey, result, 'PROJECT'), then the response
GetProjectsSet(r) ==
    /\ req[r].op = "getProjects" /\ req[r].pc = "set"
    /\ cache' = CacheSet(cache, ProjectsKey(req[r].user), req[r].data[1])
    /\ SetReq(r, Reply(req[r], 200, ""))
    /\ UNCHANGED <<labels, nextId, now, blobs, storageOk, thumbnailCache, nm>>

GetProjectsStep(r) == GetProjectsGet(r) \/ GetProjectsQuery(r) \/ GetProjectsSet(r)

(***************************************************************************)
(* deleteProject (project.controller).                                     *)
(***************************************************************************)
StartDeleteProject(r, userId, projectId) ==
    /\ Free(r)
    /\ SetReq(r, [Idle EXCEPT !.op = "deleteProject", !.pc = "find",
                              !.user = userId, !.projectId = projectId])
    /\ now' = now + 1
    /\ UNCHANGED <<labels, nextId, blobs, storageOk, cache, thumbnailCache, nm>>

\* prisma.project.findFirst({ where: { id, userId } })
DeleteProjectFind(r) ==
    /\ req[r].op = "deleteProject" /\ req[r].pc = "find"
    /\ IF OwnsProject(req[r].user, req[r].projectId)
       THEN SetReq(r, [req[r] EXCEPT !.pc = "delete"])
       ELSE SetReq(r, NotFound(req[r], 404))
    /\ UNCHANGED <<labels, nextId, now, blobs, storageOk, cache, thumbnailCache, nm>>

\* prisma.project.delete({ where: { id } }): the project's labels go with it
\* (Label.project is `onDelete: Cascade`), and the 200 response
DeleteProjectDelete(r) ==
    /\ req[r].op = "deleteProject" /\ req[r].pc = "delete"
    /\ labels' = [id \in LabelIds |->
                    IF labels[id].projectId = req[r].projectId
                    THEN NoLabel ELSE labels[id]]
    /\ SetReq(r, Reply(req[r], 200, ""))
    /\ UNCHANGED <<nextId, now, blobs, storageOk, cache, thumbnailCache, nm>>

DeleteProjectStep(r) == DeleteProjectFind(r) \/ DeleteProjectDelete(r)

(***************************************************************************)
(* deleteLabel and getLabel (project.controller).                          *)
(***************************************************************************)
StartDeleteLabel(r, userId, labelId) ==
    /\ Free(r)
    /\ SetReq(r, [Idle EXCEPT !.op = "deleteLabel", !.pc = "find",
                              !.user = userId, !.labelId = labelId])
    /\ now' = now + 1
    /\ UNCHANGED <<labels, nextId, blobs, storageOk, cache, thumbnailCache, nm>>

\* findFirst, then `existingLabel.thumbnail.includes('supabase.co')`
DeleteFind(r) ==
    /\ req[r].op = "deleteLabel" /\ req[r].pc = "find"
    /\ LET f == req[r]
           existingLabel == FindOwned(f.labelId, f.user)
       IN IF existingLabel = NoLabel
          THEN SetReq(r, NotFound(f, 404))
          ELSE SetReq(r, [f EXCEPT !.existingLabel = existingLabel,
                    !.pc = IF Kind(existingLabel.thumbnail) = "url"
                           THEN "deleteThumbnails" ELSE "cache"])
    /\ UNCHANGED <<labels, nextId, now, blobs, storageOk, cache, thumbnailCache, nm>>

\* StorageManager.deleteLabelThumbnails(labelId); a throw is caught
DeleteThumbnails(r) ==
    /\ req[r].op = "deleteLabel" /\ req[r].pc = "deleteThumbnails"
    /\ blobs' = deleteLabelThumbnails(blobs, storageOk, req[r].labelId)
    /\ SetReq(r, [req[r] EXCEPT !.pc = "cache"])
    /\ UNCHANGED <<labels, nextId, now, storageOk, cache, thumbnailCache, nm>>

\* a cache step that stores the listing again after deleting it
DeleteCacheRepopulating(r) ==
    /\ req[r].op = "deleteLabel" /\ req[r].pc = "cache"
    /\ cache' = CacheSet(CacheDeletePattern(cache, <<"projects", req[r].user>>),
                         ProjectsKey(req[r].user), Listing(labels, req[r].user))
    /\ SetReq(r, [req[r] EXCEPT !.pc = "delete"])
    /\ UNCHANGED <<labels, nextId, now, blobs, storageOk, thumbnailCache, nm>>

DeleteCache(r) ==
    /\ req[r].op = "deleteLabel" /\ req[r].pc = "cache"
    /\ cache' = CacheDeletePattern(
                  CacheDelete(CacheDelete(cache, <<"label", ToString(req[r].labelId)>>),
                              <<"project", req[r].existingLabel.projectId>>),
                  <<"projects", req[r].user>>)
    /\ SetReq(r, [req[r] EXCEPT !.pc = "delete"])
    /\ UNCHANGED <<labels, nextId, now, blobs, storageOk, thumbnailCache, nm>>

\* prisma.label.delete({ where: { id: labelId } }); a row already gone makes
\* it throw
DeleteRow(r) ==
    /\ req[r].op = "deleteLabel" /\ req[r].pc = "delete"
    /\ LET f == req[r]
       IN IF Exists(f.labelId)
          THEN /\ labels' = [labels EXCEPT ![f.labelId] = NoLabel]
               /\ SetReq(r, Reply(f, 200, ""))
          ELSE /\ UNCHANGED labels
               /\ SetReq(r, Reply(f, 500, "INTERNAL"))
    /\ UNCHANGED <<nextId, now, blobs, storageOk, cache, thumbnailCache, nm>>

DeleteStep(r) ==
    DeleteFind(r) \/ DeleteThumbnails(r) \/ DeleteCache(r) \/ DeleteRow(r)

StartGetLabel(r, userId, labelId) ==
    /\ Free(r)
    /\ SetReq(r, [Idle EXCEPT !.op = "getLabel", !.pc = "find",
                              !.user = userId, !.labelId = labelId])
    /\ now' = now + 1
    /\ UNCHANGED <<labels, nextId, blobs, storageOk, cache, thumbnailCache, nm>>

\* findFirst; a label without thumbnail is answered at once
GetLabelFind(r) ==
    /\ req[r].op = "getLabel" /\ req[r].pc = "find"
    /\ LET f == req[r]
           label == FindOwned(f.labelId, f.user)
       IN IF label = NoLabel
          THEN SetReq(r, NotFound(f, 404))
          ELSE IF Kind(label.thumbnail) = "null"
          THEN SetReq(r, [Reply(f, 200, "") EXCEPT !.existingLabel = label])
          ELSE SetReq(r, [f EXCEPT !.pc = "getUrl", !.existingLabel = label])
    /\ UNCHANGED <<labels, nextId, now, blobs, storageOk, cache, thumbnailCache, nm>>

\* ThumbnailService.getThumbnailUrl(label.id, 'md'); the answer carries the
\* fresh URL when there is one, else the stored thumbnail
GetLabelUrl(r) ==
    /\ req[r].op = "getLabel" /\ req[r].pc = "getUrl"
    /\ \E out \in getThumbnailUrl(req[r].labelId, "md") :
        /\ thumbnailCache' = out[2]
        /\ SetReq(r, [Reply(req[r], 200, "") EXCEPT
                !.url = IF out[1] = NoThumb THEN req[r].existingLabel.thumbnail
                        ELSE out[1]])
    /\ UNCHANGED <<labels, nextId, now, blobs, storageOk, cache, nm>>

GetLabelStep(r) == GetLabelFind(r) \/ GetLabelUrl(r)

(***************************************************************************)
(* Label creation: shared pieces.                                          *)
(***************************************************************************)
RECURSIVE Pending(_)
Pending(rs) ==
    IF rs = {} THEN 0
    ELSE LET r == CHOOSE x \in rs : TRUE IN req[r].need + Pending(rs \ {r})

\* the store has room for n more rows beside those already promised
Room(n) == (nextId - 1) + Pending(Slots) + n <= MaxLabels

Fail(f, status, error) == [Reply(f, status, error) EXCEPT !.need = 0]

\* a create that leaves width and height to their column defaults
NewRowDefaultSize(name, description, projectId, fabricData, thumbnail, width, height, at) ==
    [name |-> name,
     description |-> IF description = "undefined" THEN "" ELSE description,
     projectId |-> projectId,
     fabricData |-> IF fabricData = "undefined" THEN DefaultFabricData ELSE fabricData,
     thumbnail |-> IF Kind(thumbnail) = "undefined" THEN NoThumb ELSE thumbnail,
     width |-> DefaultWidth,
     height |-> DefaultHeight,
     version |-> InitialVersion,
     updatedAt |-> at]

\* prisma.label.create({ data }): version takes its default; an absent
\* description is stored as the empty text
NewRow(name, description, projectId, fabricData, thumbnail, width, height, at) ==
    [name |-> name,
     description |-> IF description = "undefined" THEN "" ELSE description,
     projectId |-> projectId,
     fabricData |-> IF fabricData = "undefined" THEN DefaultFabricData ELSE fabricData,
     thumbnail |-> IF Kind(thumbnail) = "undefined" THEN NoThumb ELSE thumbnail,
     width |-> IF width = 0 THEN DefaultWidth ELSE width,
     height |-> IF height = 0 THEN DefaultHeight ELSE height,
     version |-> InitialVersion,
     updatedAt |-> at]

\* the frame after its handler inserted a row named `name` under nextId
Inserted(f, name) ==
    [f EXCEPT !.labelId = nextId,
              !.created = Append(@, [id |-> nextId, name |-> name]),
              !.pre = Append(@, NamesOf(FindLabels(f.projectId))),
              !.from = Append(@, NamesOf(f.existingLabels)),
              !.need = @ - 1]

Insert(row) ==
    /\ labels' = [labels EXCEPT ![nextId] = row]
    /\ nextId' = nextId + 1

(***************************************************************************)
(* createLabel (project.controller): the name is the requested one.        *)
(***************************************************************************)
\* createLabelSchema: name required; version, count, labels are not keys
createLabelSchema(body) ==
    /\ body.name # <<>>
    /\ body.version = NoVersion /\ body.count = 0 /\ body.items = <<>>

StartCreateLabel(r, userId, projectId, body) ==
    /\ Free(r)
    /\ Room(1)
    /\ LET f == [Idle EXCEPT !.op = "createLabel", !.user = userId,
                             !.projectId = projectId, !.body = body,
                             !.S = NamesOf(FindLabels(projectId))]
       IN IF createLabelSchema(body)
          THEN SetReq(r, [f EXCEPT !.pc = "project", !.need = 1])
          ELSE SetReq(r, Reply(f, 400, "VALIDATION"))
    /\ now' = now + 1
    /\ UNCHANGED <<labels, nextId, blobs, storageOk, cache, thumbnailCache, nm>>

CreateLabelProject(r) ==
    /\ req[r].op = "createLabel" /\ req[r].pc = "project"
    /\ IF OwnsProject(req[r].user, req[r].projectId)
       THEN SetReq(r, [req[r] EXCEPT !.pc = "create"])
       ELSE SetReq(r, NotFound(req[r], 404))
    /\ UNCHANGED <<labels, nextId, now, blobs, storageOk, cache, thumbnailCache, nm>>

\* prisma.label.create({ data: { ...value, projectId, thumbnail, fabricData } })
CreateLabelInsert(r) ==
    /\ req[r].op = "createLabel" /\ req[r].pc = "create"
    /\ LET f == req[r]
           b == f.body
       IN /\ Insert(NewRow(b.name, b.description, f.projectId, b.fabricData,
                           b.thumbnail, b.width, b.height, now))
          /\ SetReq(r, [Inserted(f, b.name) EXCEPT
                    !.thumbnailData = b.thumbnail,
                    !.pc = IF Kind(b.thumbnail) = "data" THEN "upload" ELSE "cache"])
    /\ UNCHANGED <<now, blobs, storageOk, cache, thumbnailCache, nm>>

\* StorageManager.uploadThumbnail({ labelId: label.id, dataURL }); a failure
\* is caught and the data URL stays
CreateLabelUpload(r) ==
    /\ req[r].op = "createLabel" /\ req[r].pc = "upload"
    /\ LET f == req[r]
       IN IF storageOk
          THEN /\ blobs' = Upload(cleanupOldThumbnails(blobs, storageOk, f.labelId, "md"),
                                  f.labelId, "md", "png", Tag(f.thumbnailData))
               /\ SetReq(r, [f EXCEPT !.pc = "setThumbnail",
                                      !.url = SignedUrl(f.labelId, "md", "png", now)])
          ELSE /\ blobs' = blobs
               /\ SetReq(r, [f EXCEPT !.pc = "cache"])
    /\ UNCHANGED <<labels, nextId, now, storageOk, cache, thumbnailCache, nm>>

\* prisma.label.update({ where: { id: label.id }, data: { thumbnail: url } })
CreateLabelSetThumbnail(r) ==
    /\ req[r].op = "createLabel" /\ req[r].pc = "setThumbnail"
    /\ LET f == req[r]
       IN /\ labels' = IF Exists(f.labelId)
                       THEN [labels EXCEPT ![f.labelId].thumbnail = f.url,
                                           ![f.labelId].updatedAt = now]
                       ELSE labels
          /\ SetReq(r, [f EXCEPT !.pc = "cache"])
    /\ UNCHANGED <<nextId, now, blobs, storageOk, cache, thumbnailCache, nm>>

CreateLabelCache(r) ==
    /\ req[r].op = "createLabel" /\ req[r].pc = "cache"
    /\ cache' = CacheDelete(CacheDeletePattern(cache, <<"projects", req[r].user>>),
                            <<"project", req[r].projectId>>)
    /\ SetReq(r, [Reply(req[r], 201, "") EXCEPT !.data = req[r].created])
    /\ UNCHANGED <<labels, nextId, now, blobs, storageOk, thumbnailCache, nm>>

(***************************************************************************)
(* createNewLabel (labelManagement.controller) over                        *)
(* LabelCreationService.createLabel: the requested name, or a generated    *)
(* one when none is requested.                                             *)
(***************************************************************************)
StartCreateNewLabel(r, userId, projectId, body) ==
    /\ Free(r)
    /\ Room(1)
    /\ SetReq(r, [Idle EXCEPT !.op = "createNewLabel", !.pc = "project",
                              !.user = userId, !.projectId = projectId,
                              !.body = body, !.need = 1,
                              !.S = NamesOf(FindLabels(projectId))])
    /\ now' = now + 1
    /\ UNCHANGED <<labels, nextId, blobs, storageOk, cache, thumbnailCache, nm>>

\* 'Project not found or access denied' is thrown and answered 500
NewLabelProject(r) ==
    /\ req[r].op = "createNewLabel" /\ req[r].pc = "project"
    /\ IF OwnsProject(req[r].user, req[r].projectId)
       THEN SetReq(r, [req[r] EXCEPT !.pc = "findMany"])
       ELSE SetReq(r, NotFound(req[r], 500))
    /\ UNCHANGED <<labels, nextId, now, blobs, storageOk, cache, thumbnailCache, nm>>

NewLabelFindMany(r) ==
    /\ req[r].op = "createNewLabel" /\ req[r].pc = "findMany"
    /\ SetReq(r, [req[r] EXCEPT !.pc = "create",
                                !.existingLabels = FindLabels(req[r].projectId)])
    /\ UNCHANGED <<labels, nextId, now, blobs, storageOk, cache, thumbnailCache, nm>>

\* data.name || generateUniqueLabel(existingLabels)
ServiceLabelName(body, existingLabels) ==
    IF body.name # <<>> THEN body.name
    ELSE generateUniqueLabel(existingLabels, DefaultBaseName)

NewLabelCreate(r) ==
    /\ req[r].op = "createNewLabel" /\ req[r].pc = "create"
    /\ LET f == req[r]
           b == f.body
           labelName == ServiceLabelName(b, f.existingLabels)
       IN /\ Insert(NewRow(labelName, b.description, f.projectId, b.fabricData,
                           b.thumbnail, b.width, b.height, now))
          /\ SetReq(r, [Reply(Inserted(f, labelName), 201, "") EXCEPT
                            !.data = Inserted(f, labelName).created])
    /\ UNCHANGED <<now, blobs, storageOk, cache, thumbnailCache, nm>>

(***************************************************************************)
(* createLabelWithAutoNaming, duplicateLabel, createLabelFromTemplate      *)
(* (labelManagement.controller).                                           *)
(***************************************************************************)
\* createLabelWithAutoNamingSchema: name optional; version, count, labels
\* are not keys
createLabelWithAutoNamingSchema(body) ==
    body.version = NoVersion /\ body.count = 0 /\ body.items = <<>>

StartCreateLabelWithAutoNaming(r, userId, projectId, body) ==
    /\ Free(r)
    /\ Room(1)
    /\ LET f == [Idle EXCEPT !.op = "createLabelWithAutoNaming", !.user = userId,
                             !.projectId = projectId, !.body = body,
                             !.S = NamesOf(FindLabels(projectId))]
       IN IF createLabelWithAutoNamingSchema(body)
          THEN SetReq(r, [f EXCEPT !.pc = "project", !.need = 1])
          ELSE SetReq(r, Reply(f, 400, "VALIDATION"))
    /\ now' = now + 1
    /\ UNCHANGED <<labels, nextId, blobs, storageOk, cache, thumbnailCache, nm>>

AutoNamingProject(r) ==
    /\ req[r].op = "createLabelWithAutoNaming" /\ req[r].pc = "project"
    /\ IF OwnsProject(req[r].user, req[r].projectId)
       THEN SetReq(r, [req[r] EXCEPT !.pc = "findMany"])
       ELSE SetReq(r, NotFound(req[r], 404))
    /\ UNCHANGED <<labels, nextId, now, blobs, storageOk, cache, thumbnailCache, nm>>

AutoNamingFindMany(r) ==
    /\ req[r].op = "createLabelWithAutoNaming" /\ req[r].pc = "findMany"
    /\ SetReq(r, [req[r] EXCEPT !.pc = "create",
                                !.existingLabels = FindLabels(req[r].projectId)])
    /\ UNCHANGED <<labels, nextId, now, blobs, storageOk, cache, thumbnailCache, nm>>

\* customName ? generateUniqueLabel(existingLabels, customName)
\*            : generateUniqueLabel(existingLabels)
AutoLabelName(body, existingLabels) ==
    generateUniqueLabel(existingLabels,
                        IF body.name # <<>> THEN body.name ELSE DefaultBaseName)

AutoNamingCreate(r) ==
    /\ req[r].op = "createLabelWithAutoNaming" /\ req[r].pc = "create"
    /\ LET f == req[r]
           b == f.body
           labelName == AutoLabelName(b, f.existingLabels)
       IN /\ Insert(NewRow(labelName, b.description, f.projectId, b.fabricData,
                           b.thumbnail, b.width, b.height, now))
          /\ SetReq(r, [Inserted(f, labelName) EXCEPT !.pc = "cache"])
    /\ UNCHANGED <<now, blobs, storageOk, cache, thumbnailCache, nm>>

\* deletePattern(`labels:project:${projectId}:*`),
\* deletePattern(`project:${projectId}:*`), then the 201 response
AutoNamingCache(r) ==
    /\ req[r].op = "createLabelWithAutoNaming" /\ req[r].pc = "cache"
    /\ cache' = CacheDeletePattern(
                    CacheDeletePattern(cache, <<"labels", "project", req[r].projectId>>),
                    <<"project", req[r].projectId>>)
    /\ SetReq(r, [Reply(req[r], 201, "") EXCEPT !.data = req[r].created])
    /\ UNCHANGED <<labels, nextId, now, blobs, storageOk, thumbnailCache, nm>>

StartDuplicateLabel(r, userId, labelId) ==
    /\ Free(r)
    /\ Room(1)
    /\ SetReq(r, [Idle EXCEPT !.op = "duplicateLabel", !.pc = "find",
                              !.user = userId, !.labelId = labelId, !.need = 1])
    /\ now' = now + 1
    /\ UNCHANGED <<labels, nextId, blobs, storageOk, cache, thumbnailCache, nm>>

DuplicateFind(r) ==
    /\ req[r].op = "duplicateLabel" /\ req[r].pc = "find"
    /\ LET f == req[r]
           originalLabel == FindOwned(f.labelId, f.user)
       IN IF originalLabel = NoLabel
          THEN SetReq(r, NotFound(f, 404))
          ELSE SetReq(r, [f EXCEPT !.pc = "findMany",
                                   !.existingLabel = originalLabel,
                                   !.projectId = originalLabel.projectId,
                                   !.S = NamesOf(FindLabels(originalLabel.projectId))])
    /\ UNCHANGED <<labels, nextId, now, blobs, storageOk, cache, thumbnailCache, nm>>

DuplicateFindMany(r) ==
    /\ req[r].op = "duplicateLabel" /\ req[r].pc = "findMany"
    /\ SetReq(r, [req[r] EXCEPT !.pc = "create",
                                !.existingLabels = FindLabels(req[r].projectId)])
    /\ UNCHANGED <<labels, nextId, now, blobs, storageOk, cache, thumbnailCache, nm>>

\* duplicateData: name, description, projectId, fabricData, width, height;
\* no thumbnail
DuplicateCreate(r) ==
    /\ req[r].op = "duplicateLabel" /\ req[r].pc = "create"
    /\ LET f == req[r]
           o == f.existingLabel
           copyName == generateCopyName(o.name, f.existingLabels)
       IN /\ Insert(NewRow(copyName, o.description, o.projectId, o.fabricData,
                           Undefined, o.width, o.height, now))
          /\ SetReq(r, [Inserted(f, copyName) EXCEPT !.pc = "cache"])
    /\ UNCHANGED <<now, blobs, storageOk, cache, thumbnailCache, nm>>

DuplicateCache(r) ==
    /\ req[r].op = "duplicateLabel" /\ req[r].pc = "cache"
    /\ cache' = CacheDeletePattern(cache, <<"labels", "project", req[r].projectId>>)
    /\ SetReq(r, [Reply(req[r], 201, "") EXCEPT !.data = req[r].created])
    /\ UNCHANGED <<labels, nextId, now, blobs, storageOk, thumbnailCache, nm>>

\* duplicateExistingLabel (src/controllers/labelManagement.controller.ts)
\* over LabelCreationService.duplicateLabel
StartDuplicateExistingLabel(r, userId, labelId) ==
    /\ Free(r)
    /\ Room(1)
    /\ SetReq(r, [Idle EXCEPT !.op = "duplicateExistingLabel", !.pc = "find",
                              !.user = userId, !.labelId = labelId, !.need = 1])
    /\ now' = now + 1
    /\ UNCHANGED <<labels, nextId, blobs, storageOk, cache, thumbnailCache, nm>>

\* 'Label not found or access denied' is thrown and answered 500
ServiceDuplicateFind(r) ==
    /\ req[r].op = "duplicateExistingLabel" /\ req[r].pc = "find"
    /\ LET f == req[r]
           originalLabel == FindOwned(f.labelId, f.user)
       IN IF originalLabel = NoLabel
          THEN SetReq(r, NotFound(f, 500))
          ELSE SetReq(r, [f EXCEPT !.pc = "findMany",
                                   !.existingLabel = originalLabel,
                                   !.projectId = originalLabel.projectId,
                                   !.S = NamesOf(FindLabels(originalLabel.projectId))])
    /\ UNCHANGED <<labels, nextId, now, blobs, storageOk, cache, thumbnailCache, nm>>

ServiceDuplicateFindMany(r) ==
    /\ req[r].op = "duplicateExistingLabel" /\ req[r].pc = "findMany"
    /\ SetReq(r, [req[r] EXCEPT !.pc = "create",
                                !.existingLabels = FindLabels(req[r].projectId)])
    /\ UNCHANGED <<labels, nextId, now, blobs, storageOk, cache, thumbnailCache, nm>>

\* data: { name: copyName, description, width, height, projectId, fabricData,
\*         thumbnail: originalLabel.thumbnail }
ServiceDuplicateCreate(r) ==
    /\ req[r].op = "duplicateExistingLabel" /\ req[r].pc = "create"
    /\ LET f == req[r]
           o == f.existingLabel
           copyName == generateCopyName(o.name, f.existingLabels)
       IN /\ Insert(NewRow(copyName, o.description, o.projectId, o.fabricData,
                           o.thumbnail, o.width, o.height, now))
          /\ SetReq(r, [Reply(Inserted(f, copyName), 201, "") EXCEPT
                            !.data = Inserted(f, copyName).created])
    /\ UNCHANGED <<now, blobs, storageOk, cache, thumbnailCache, nm>>

ServiceDuplicateStep(r) ==
    \/ ServiceDuplicateFind(r)
    \/ ServiceDuplicateFindMany(r)
    \/ ServiceDuplicateCreate(r)

TemplateBaseName == <<"Template", "Label">>

\* the body carries a templateId and, optionally, a name
StartCreateLabelFromTemplate(r, userId, projectId, body) ==
    /\ Free(r)
    /\ Room(1)
    /\ SetReq(r, [Idle EXCEPT !.op = "createLabelFromTemplate", !.pc = "project",
                              !.user = userId, !.projectId = projectId,
                              !.body = body, !.need = 1,
                              !.S = NamesOf(FindLabels(projectId))])
    /\ now' = now + 1
    /\ UNCHANGED <<labels, nextId, blobs, storageOk, cache, thumbnailCache, nm>>

TemplateProject(r) ==
    /\ req[r].op = "createLabelFromTemplate" /\ req[r].pc = "project"
    /\ IF OwnsProject(req[r].user, req[r].projectId)
       THEN SetReq(r, [req[r] EXCEPT !.pc = "findMany"])
       ELSE SetReq(r, NotFound(req[r], 404))
    /\ UNCHANGED <<labels, nextId, now, blobs, storageOk, cache, thumbnailCache, nm>>

TemplateFindMany(r) ==
    /\ req[r].op = "createLabelFromTemplate" /\ req[r].pc = "findMany"
    /\ SetReq(r, [req[r] EXCEPT !.pc = "create",
                                !.existingLabels = FindLabels(req[r].projectId)])
    /\ UNCHANGED <<labels, nextId, now, blobs, storageOk, cache, thumbnailCache, nm>>

\* customName || generateUniqueLabel(existingLabels, 'Template Label')
TemplateLabelName(body, existingLabels) ==
    IF body.name # <<>> THEN body.name
    ELSE generateUniqueLabel(existingLabels, TemplateBaseName)

TemplateCreate(r) ==
    /\ req[r].op = "createLabelFromTemplate" /\ req[r].pc = "create"
    /\ LET f == req[r]
           labelName == TemplateLabelName(f.body, f.existingLabels)
       IN /\ Insert(NewRow(labelName, "Created from template", f.projectId, "null",
                           Undefined, DefaultWidth, DefaultHeight, now))
          /\ SetReq(r, [Inserted(f, labelName) EXCEPT !.pc = "cache"])
    /\ UNCHANGED <<now, blobs, storageOk, cache, thumbnailCache, nm>>

TemplateCache(r) ==
    /\ req[r].op = "createLabelFromTemplate" /\ req[r].pc = "cache"
    /\ cache' = CacheDeletePattern(cache, <<"labels", "project", req[r].projectId>>)
    /\ SetReq(r, [Reply(req[r], 201, "") EXCEPT !.data = req[r].created])
    /\ UNCHANGED <<labels, nextId, now, blobs, storageOk, thumbnailCache, nm>>

(***************************************************************************)
(* createBulkLabels and createBulkLabelsUnique (labelManagement.controller *)
(* of part_015): one insert per iteration, each named from a fresh read.   *)
(***************************************************************************)
\* createBulkLabelsSchema: count an integer of 1..10000, name optional
createBulkLabelsSchema(body) ==
    /\ body.count >= 1 /\ body.count <= 10000
    /\ body.version = NoVersion /\ body.items = <<>>

StartCreateBulkLabels(r, userId, projectId, body) ==
    /\ Free(r)
    /\ Room(body.count)
    /\ LET f == [Idle EXCEPT !.op = "createBulkLabels", !.user = userId,
                             !.projectId = projectId, !.body = body,
                             !.S = NamesOf(FindLabels(projectId))]
       IN IF createBulkLabelsSchema(body)
          THEN SetReq(r, [f EXCEPT !.pc = "project", !.need = body.count])
          ELSE SetReq(r, Reply(f, 400, "VALIDATION"))
    /\ now' = now + 1
    /\ UNCHANGED <<labels, nextId, blobs, storageOk, cache, thumbnailCache, nm>>

BulkProject(r) ==
    /\ req[r].op = "createBulkLabels" /\ req[r].pc = "project"
    /\ IF OwnsProject(req[r].user, req[r].projectId)
       THEN SetReq(r, [req[r] EXCEPT !.pc = "findMany"])
       ELSE SetReq(r, NotFound(req[r], 404))
    /\ UNCHANGED <<labels, nextId, now, blobs, storageOk, cache, thumbnailCache, nm>>

\* the read before the loop
BulkFindMany(r) ==
    /\ req[r].op = "createBulkLabels" /\ req[r].pc = "findMany"
    /\ SetReq(r, [req[r] EXCEPT !.pc = "refresh", !.i = 0,
                                !.existingLabels = FindLabels(req[r].projectId)])
    /\ UNCHANGED <<labels, nextId, now, blobs, storageOk, cache, thumbnailCache, nm>>

\* A plausible slip: the loop names every label from the read made before it.
BulkSnapshotStale(f) == f.existingLabels

\* currentExistingLabels: the read at the top of each iteration
BulkSnapshot(f) == FindLabels(f.projectId)

BulkRefresh(r) ==
    /\ req[r].op = "createBulkLabels" /\ req[r].pc = "refresh"
    /\ SetReq(r, [req[r] EXCEPT !.pc = "create",
                                !.existingLabels = BulkSnapshot(req[r])])
    /\ UNCHANGED <<labels, nextId, now, blobs, storageOk, cache, thumbnailCache, nm>>

\* name || 'New Label'
BulkBaseName(body) == IF body.name # <<>> THEN body.name ELSE DefaultBaseName

\* prisma.label.create of iteration i; when it throws the handler passes the
\* error on and the rows of the earlier iterations stay
BulkCreate(r) ==
    /\ req[r].op = "createBulkLabels" /\ req[r].pc = "create"
    /\ LET f == req[r]
           b == f.body
           labelName == generateUniqueLabel(f.existingLabels, BulkBaseName(b))
       IN \E ok \in BOOLEAN :
            IF ok
            THEN /\ Insert(NewRow(labelName, b.description, f.projectId, b.fabricData,
                                  b.thumbnail, b.width, b.height, now))
                 /\ SetReq(r, [Inserted(f, labelName) EXCEPT
                         !.i = f.i + 1,
                         !.pc = IF f.i + 1 < b.count THEN "refresh" ELSE "cache"])
            ELSE /\ UNCHANGED <<labels, nextId>>
                 /\ SetReq(r, Fail(f, 500, "INTERNAL"))
    /\ UNCHANGED <<now, blobs, storageOk, cache, thumbnailCache, nm>>

\* deletePattern(`projects:${userId}:*`), delete(`project:${projectId}`),
\* then 201 with data: createdLabelsInfo
BulkCache(r) ==
    /\ req[r].op = "createBulkLabels" /\ req[r].pc = "cache"
    /\ cache' = CacheDelete(CacheDeletePattern(cache, <<"projects", req[r].user>>),
                            <<"project", req[r].projectId>>)
    /\ SetReq(r, [Reply(req[r], 201, "") EXCEPT !.data = req[r].created])
    /\ UNCHANGED <<labels, nextId, now, blobs, storageOk, thumbnailCache, nm>>

\* createBulkLabelsUniqueSchema: labels an array of 1..10000 items, each
\* with a name; body.items holds the items' names
createBulkLabelsUniqueSchema(body) ==
    /\ Len(body.items) >= 1 /\ Len(body.items) <= 10000
    /\ \A k \in 1..Len(body.items) : body.items[k] # <<>>
    /\ body.version = NoVersion /\ body.count = 0 /\ body.name = <<>>

StartCreateBulkLabelsUnique(r, userId, projectId, body) ==
    /\ Free(r)
    /\ Room(Len(body.items))
    /\ LET f == [Idle EXCEPT !.op = "createBulkLabelsUnique", !.user = userId,
                             !.projectId = projectId, !.body = body,
                             !.S = NamesOf(FindLabels(projectId))]
       IN IF createBulkLabelsUniqueSchema(body)
          THEN SetReq(r, [f EXCEPT !.pc = "project", !.need = Len(body.items)])
          ELSE SetReq(r, Reply(f, 400, "VALIDATION"))
    /\ now' = now + 1
    /\ UNCHANGED <<labels, nextId, blobs, storageOk, cache, thumbnailCache, nm>>

UniqueProject(r) ==
    /\ req[r].op = "createBulkLabelsUnique" /\ req[r].pc = "project"
    /\ IF OwnsProject(req[r].user, req[r].projectId)
       THEN SetReq(r, [req[r] EXCEPT !.pc = "findMany"])
       ELSE SetReq(r, NotFound(req[r], 404))
    /\ UNCHANGED <<labels, nextId, now, blobs, storageOk, cache, thumbnailCache, nm>>

UniqueFindMany(r) ==
    /\ req[r].op = "createBulkLabelsUnique" /\ req[r].pc = "findMany"
    /\ SetReq(r, [req[r] EXCEPT !.pc = "refresh", !.i = 0,
                                !.existingLabels = FindLabels(req[r].projectId)])
    /\ UNCHANGED <<labels, nextId, now, blobs, storageOk, cache, thumbnailCache, nm>>

UniqueRefresh(r) ==
    /\ req[r].op = "createBulkLabelsUnique" /\ req[r].pc = "refresh"
    /\ SetReq(r, [req[r] EXCEPT !.pc = "create",
                                !.existingLabels = FindLabels(req[r].projectId)])
    /\ UNCHANGED <<labels, nextId, now, blobs, storageOk, cache, thumbnailCache, nm>>

\* generateUniqueLabel(currentExistingLabels, labelInfo.name), then the insert
UniqueCreate(r) ==
    /\ req[r].op = "createBulkLabelsUnique" /\ req[r].pc = "create"
    /\ LET f == req[r]
           b == f.body
           uniqueName == generateUniqueLabel(f.existingLabels, b.items[f.i + 1])
       IN \E ok \in BOOLEAN :
            IF ok
            THEN /\ Insert(NewRow(uniqueName, b.description, f.projectId, "own canvas",
                                  b.thumbnail, b.width, b.height, now))
                 /\ SetReq(r, [Inserted(f, uniqueName) EXCEPT
                         !.i = f.i + 1,
                         !.pc = IF f.i + 1 < Len(b.items) THEN "refresh" ELSE "cache"])
            ELSE /\ UNCHANGED <<labels, nextId>>
                 /\ SetReq(r, Fail(f, 500, "INTERNAL"))
    /\ UNCHANGED <<now, blobs, storageOk, cache, thumbnailCache, nm>>

UniqueCache(r) ==
    /\ req[r].op = "createBulkLabelsUnique" /\ req[r].pc = "cache"
    /\ cache' = CacheDelete(CacheDeletePattern(cache, <<"projects", req[r].user>>),
                            <<"project", req[r].projectId>>)
    /\ SetReq(r, [Reply(req[r], 201, "") EXCEPT !.data = req[r].created])
    /\ UNCHANGED <<labels, nextId, now, blobs, storageOk, thumbnailCache, nm>>

(***************************************************************************)
(* The bulk-create route of src/controllers/labelManagement.controller.ts  *)
(* over LabelCreationService.createBulkLabels: the names are computed from *)
(* one read and the rows are inserted in one transaction.                  *)
(***************************************************************************)
\* `!count || count < 1 || count > 50` answers 400
BulkCountValid(count) == count >= 1 /\ count <= 50

StartBulkCreate(r, userId, projectId, body) ==
    /\ Free(r)
    /\ Room(body.count)
    /\ LET f == [Idle EXCEPT !.op = "bulkCreate", !.user = userId,
                             !.projectId = projectId, !.body = body,
                             !.S = NamesOf(FindLabels(projectId))]
       IN IF BulkCountValid(body.count)
          THEN SetReq(r, [f EXCEPT !.pc = "project", !.need = body.count])
          ELSE SetReq(r, Reply(f, 400, "VALIDATION"))
    /\ now' = now + 1
    /\ UNCHANGED <<labels, nextId, blobs, storageOk, cache, thumbnailCache, nm>>

ServiceBulkProject(r) ==
    /\ req[r].op = "bulkCreate" /\ req[r].pc = "project"
    /\ IF OwnsProject(req[r].user, req[r].projectId)
       THEN SetReq(r, [req[r] EXCEPT !.pc = "findMany"])
       ELSE SetReq(r, NotFound(req[r], 500))
    /\ UNCHANGED <<labels, nextId, now, blobs, storageOk, cache, thumbnailCache, nm>>

ServiceBulkFindMany(r) ==
    /\ req[r].op = "bulkCreate" /\ req[r].pc = "findMany"
    /\ SetReq(r, [req[r] EXCEPT !.pc = "transaction",
                                !.existingLabels = FindLabels(req[r].projectId)])
    /\ UNCHANGED <<labels, nextId, now, blobs, storageOk, cache, thumbnailCache, nm>>

\* labelsToCreate: each name is generated against currentLabels, which grows
\* by the names generated so far
RECURSIVE LabelsToCreate(_, _, _)
LabelsToCreate(currentLabels, baseName, count) ==
    IF count = 0 THEN <<>>
    ELSE LET uniqueName == generateUniqueLabel(currentLabels, baseName)
         IN <<uniqueName>> \o
            LabelsToCreate(currentLabels \cup {[id |-> 0, name |-> uniqueName]},
                           baseName, count - 1)

\* prisma.$transaction(labelsToCreate.map(create)): all rows or none
ServiceBulkTransaction(r) ==
    /\ req[r].op = "bulkCreate" /\ req[r].pc = "transaction"
    /\ LET f == req[r]
           b == f.body
           n == b.count
           names == LabelsToCreate(f.existingLabels, BulkBaseName(b), n)
           before == NamesOf(FindLabels(f.projectId))
           g == [f EXCEPT
                  !.labelId = nextId + n - 1,
                  !.created = [k \in 1..n |-> [id |-> nextId + k - 1, name |-> names[k]]],
                  !.pre = [k \in 1..n |-> before \cup {names[j] : j \in 1..(k - 1)}],
                  !.from = [k \in 1..n |-> NamesOf(f.existingLabels)
                                            \cup {names[j] : j \in 1..(k - 1)}],
                  !.need = 0]
       IN \E ok \in BOOLEAN :
            IF ok
            THEN /\ labels' = [id \in LabelIds |->
                        IF id >= nextId /\ id < nextId + n
                        THEN NewRow(names[id - nextId + 1], b.description, f.projectId,
                                    b.fabricData, Undefined, b.width, b.height, now)
                        ELSE labels[id]]
                 /\ nextId' = nextId + n
                 /\ SetReq(r, [Reply(g, 201, "") EXCEPT !.data = g.created])
            ELSE /\ UNCHANGED <<labels, nextId>>
                 /\ SetReq(r, Fail(f, 500, "INTERNAL"))
    /\ UNCHANGED <<now, blobs, storageOk, cache, thumbnailCache, nm>>

(***************************************************************************)
(* The naming engine driven on its own: a sibling-name set, a base name    *)
(* and an original name are drawn, then generateUniqueLabel or             *)
(* generateCopyName is called repeatedly, each result fed back into the    *)
(* sibling names.                                                          *)
(***************************************************************************)
Invoice == <<"Invoice">>

NameUniverse ==
    { Invoice, <<"Invoice", "Copy">>, <<"Invoice", "Copy", "2">>,
      <<"Invoice", "Copy", "3">>, <<"Invoice", "1">>,
      <<"New", "Label", "1">>, <<"New", "Label", "2">>,
      <<"New", "Label", "1", "1">> }

BaseNames == { DefaultBaseName, Invoice, <<"New", "Label", "1">> }

OriginalNames ==
    { Invoice, <<"Invoice", "Copy">>, <<"Invoice", "Copy", "2">>,
      <<"New", "Label", "1">> }

AsLabels(names) == {[id |-> 0, name |-> n] : n \in names}

NamingIdle ==
    [kind |-> "none", E |-> {}, base |-> DefaultBaseName, orig |-> Invoice,
     out |-> <<>>, pre |-> <<>>, origs |-> <<>>]

InitNamingEngine ==
    \E E \in SUBSET NameUniverse, b \in BaseNames, o \in OriginalNames :
        /\ Cardinality(E) <= MaxExisting
        /\ nm = [NamingIdle EXCEPT !.E = E, !.base = b, !.orig = o]

CallGenerateUniqueLabel ==
    /\ nm.kind \in {"none", "unique"}
    /\ Len(nm.out) < MaxCalls
    /\ LET r == generateUniqueLabel(AsLabels(nm.E), nm.base)
       IN nm' = [nm EXCEPT !.kind = "unique",
                           !.out = Append(@, r),
                           !.pre = Append(@, nm.E),
                           !.origs = Append(@, nm.base),
                           !.E = @ \cup {r}]
    /\ UNCHANGED <<labels, nextId, now, blobs, storageOk, cache, thumbnailCache, req>>

\* The next original is either the same label again or the copy just made.
CallGenerateCopyName ==
    /\ nm.kind \in {"none", "copy"}
    /\ Len(nm.out) < MaxCalls
    /\ LET r == generateCopyName(nm.orig, AsLabels(nm.E))
       IN \E o \in {nm.orig, r} :
            nm' = [nm EXCEPT !.kind = "copy",
                             !.out = Append(@, r),
                             !.pre = Append(@, nm.E),
                             !.origs = Append(@, nm.orig),
                             !.E = @ \cup {r},
                             !.orig = o]
    /\ UNCHANGED <<labels, nextId, now, blobs, storageOk, cache, thumbnailCache, req>>

InitNaming ==
    /\ InitNamingEngine
    /\ labels = [id \in LabelIds |-> NoLabel]
    /\ nextId = 1
    /\ now = 1
    /\ blobs = {}
    /\ storageOk = TRUE
    /\ cache = {}
    /\ thumbnailCache = {}
    /\ req = [r \in Slots |-> Idle]

NextNaming == CallGenerateUniqueLabel \/ CallGenerateCopyName

SpecNaming == InitNaming /\ [][NextNaming]_vars

\* the calls made so far
Calls == 1..Len(nm.out)

\* C9: generateUniqueLabel returns "b k" for the smallest k >= 1 such that
\* "b k" is not among the existing names; so the result is not an existing
\* name, the same inputs give the same result, and calls that feed each
\* result back into the existing names return pairwise distinct names.
C9_UniqueNameIsSmallestFree ==
    nm.kind = "unique" =>
        /\ \A i \in Calls :
            LET b == nm.origs[i]
                E == nm.pre[i]
            IN /\ \E k \in 1..(Cardinality(E) + 1) :
                    /\ nm.out[i] = b \o <<ToString(k)>>
                    /\ \A j \in 1..(k - 1) : (b \o <<ToString(j)>>) \in E
               /\ nm.out[i] \notin E
               /\ \A E2 \in SUBSET NameUniverse :
                    E2 = E => generateUniqueLabel(AsLabels(E2), b) = nm.out[i]
        /\ \A i, j \in Calls : i # j => nm.out[i] # nm.out[j]

\* three chained calls, the first of which had to skip two taken numbers
C9_Witness ==
    /\ nm.kind = "unique"
    /\ Len(nm.out) = 3
    /\ nm.origs[1] = DefaultBaseName
    /\ nm.out[1] = <<"New", "Label", "3">>
    /\ nm.out[3] = <<"New", "Label", "5">>

\* name is "<stem> Copy <n>" with n >= 2, or "<stem> Copy" with n = 1
IsCopyOf(name, stem, n) ==
    name = IF n = 1 THEN stem \o <<"Copy">> ELSE stem \o <<"Copy", ToString(n)>>

Row(name, projectId, thumbnail, version) ==
    [name |-> name, description |-> "", projectId |-> projectId,
     fabricData |-> DefaultFabricData, thumbnail |-> thumbnail,
     width |-> DefaultWidth, height |-> DefaultHeight, version |-> version,
     updatedAt |-> 0]

Quiet ==
    /\ req = [r \in Slots |-> Idle]
    /\ nm = NamingIdle
    /\ cache = {}
    /\ thumbnailCache = {}
    /\ now = 1

Init ==
    /\ Quiet
    /\ storageOk \in BOOLEAN
    /\ nextId = 2
    /\ \E v \in 1..2, withThumbnail \in BOOLEAN :
        /\ labels = [id \in LabelIds |->
                        IF id = 1
                        THEN Row(Invoice, "p1",
                                 IF withThumbnail THEN SignedUrl(1, "md", "png", 0)
                                 ELSE NoThumb, v)
                        ELSE NoLabel]
        /\ blobs = IF withThumbnail THEN {Blob(1, "md", "png", 0)} ELSE {}

TargetIds == {1, 2}

Patches ==
    { [NoBody EXCEPT !.name = <<"Receipt">>],
      [NoBody EXCEPT !.fabricData = "f1"],
      [NoBody EXCEPT !.thumbnail = DataURL(1)],
      [NoBody EXCEPT !.thumbnail = TextThumb, !.width = 200] }

UpdateBodies ==
    {[p EXCEPT !.version = v] : p \in Patches, v \in {NoVersion, 1, 2}}

UpdateLabelStep(r) ==
    \/ UpdateFind(r)
    \/ UpdateDeleteOld(r)
    \/ UpdateCleanup(r)
    \/ UpdateUpload(r)
    \/ UpdateCache(r)
    \/ UpdateWrite(r)

RefreshStep(r) == RefreshFind(r) \/ RefreshGetUrl(r) \/ RefreshWrite(r)

GenerateStep(r) ==
    GenerateFind(r) \/ GenerateUpload(r) \/ GenerateWrite(r) \/ GenerateReply(r)

Next ==
    \/ \E r \in Slots, u \in Users, id \in TargetIds, body \in UpdateBodies :
            StartUpdateLabel(r, u, id, body)
    \/ \E r \in Slots : UpdateLabelStep(r)
    \/ \E r \in Slots, u \in Users, id \in TargetIds :
            StartRefreshThumbnailUrl(r, u, id, "md")
    \/ \E r \in Slots : RefreshStep(r)
    \/ \E r \in Slots, u \in Users, id \in TargetIds :
            StartGenerateThumbnail(r, u, id, DataURL(2), "md")
    \/ \E r \in Slots : GenerateStep(r)
    \/ \E id \in TargetIds : UpdateLabelData(id, "f2")
    \/ \E u \in Users : GetProjects(u)

Spec == Init /\ [][Next]_vars

(***************************************************************************)
(* Optimistic concurrency of updateLabel.                                  *)
(***************************************************************************)
\* the step in which slot r sends the response of an updateLabel request
Answers(r) ==
    /\ req'[r] # req[r]
    /\ req'[r].op = "updateLabel"
    /\ req'[r].pc = "done"

OthersQuiet(r) == \A q \in Slots \ {r} : req[q].pc = "done"

\* C1: an updateLabel request by the owner that supplies an expectedVersion
\* different from the stored version is answered VersionConflict carrying the
\* stored version, and changes neither the stored label nor the blob store.
C1_StaleVersionIsConflict ==
    [][\A r \in Slots :
        LET f == req'[r]
            stored == FindOwned(f.labelId, f.user)
        IN (/\ Answers(r)
            /\ stored # NoLabel
            /\ f.body.version # NoVersion
            /\ f.body.version # stored.version)
           => /\ f.status = 409
              /\ f.error = "VERSION_CONFLICT"
              /\ f.currentVersion = stored.version
              /\ labels' = labels
              /\ blobs' = blobs]_vars

\* C2: of two updateLabel requests by the owner for one label, both supplying
\* the version the label had when they arrived, one succeeds and the other
\* is answered VersionConflict, and the stored version ends one higher.
C2_CompareAndSwap ==
    \A r1, r2 \in Slots :
        LET f1 == req[r1]
            f2 == req[r2]
        IN (/\ r1 < r2
            /\ f1.op = "updateLabel" /\ f2.op = "updateLabel"
            /\ f1.pc = "done" /\ f2.pc = "done"
            /\ f1.labelId = f2.labelId
            /\ FindOwned(f1.labelId, f1.user) # NoLabel
            /\ f1.user = f2.user
            /\ f1.v0 = f2.v0
            /\ f1.body.version = f1.v0
            /\ f2.body.version = f2.v0)
           => /\ {f1.status, f2.status} = {200, 409}
              /\ labels[f1.labelId].version = f1.v0 + 1

\* C3: a stored label's version never decreases, and every step that changes
\* a stored label raises its version by exactly 1.
C3_EveryChangeIncrementsVersion ==
    [][\A id \in LabelIds :
        (Exists(id) /\ labels'[id].projectId # "" /\ labels'[id] # labels[id])
        => labels'[id].version = labels[id].version + 1]_vars

\* C4: with no other request in progress, an updateLabel request by the owner
\* whose expectedVersion is the stored version, or that carries none, succeeds:
\* the stored label takes the fields of the patch, keeps the others (the
\* thumbnail too when the patch has none) and its version rises by 1.
C4_UpdateAppliesPatch ==
    [][\A r \in Slots :
        LET f == req'[r]
            old == labels[f.labelId]
            new == labels'[f.labelId]
        IN (/\ Answers(r)
            /\ OthersQuiet(r)
            /\ FindOwned(f.labelId, f.user) # NoLabel
            /\ f.body.version \in {NoVersion, old.version})
           => /\ f.status = 200
              /\ new.version = old.version + 1
              /\ new.name = IF f.body.name = <<>> THEN old.name ELSE f.body.name
              /\ new.fabricData = IF f.body.fabricData = "undefined"
                                  THEN old.fabricData ELSE f.body.fabricData
              /\ new.width = IF f.body.width = 0 THEN old.width ELSE f.body.width
              /\ Kind(f.body.thumbnail) = "undefined" => new.thumbnail = old.thumbnail
              /\ new.projectId = old.projectId]_vars

(***************************************************************************)
(* SpecCreate: the creating handlers and renaming updates, one request at  *)
(* a time, on a store that holds at most one label of project p1.          *)
(***************************************************************************)
NewLabel(k) == Numbered(DefaultBaseName, k)

\* the stores the creating specifications start from
InitialStore(names) ==
    /\ labels = [id \in LabelIds |->
                    IF id <= Len(names) THEN Row(names[id], "p1", NoThumb, InitialVersion)
                    ELSE NoLabel]
    /\ nextId = Len(names) + 1
    /\ blobs = {}

InitCreate ==
    /\ Quiet
    /\ storageOk = TRUE
    /\ \E names \in {<<>>, <<Invoice>>, <<NewLabel(2)>>} : InitialStore(names)

\* the serial specification runs all its requests in the first slot
SerialSlot == CHOOSE r \in Slots : \A q \in Slots : r <= q

RequestedNames == {<<>>, Invoice, NewLabel(1)}

CreateBodies ==
    {[NoBody EXCEPT !.name = n, !.thumbnail = t] :
        n \in RequestedNames, t \in {Undefined, DataURL(1)}}

NamedBodies == {[NoBody EXCEPT !.name = n] : n \in RequestedNames}

BulkBodies ==
    {[NoBody EXCEPT !.name = n, !.count = c] :
        n \in {<<>>, Invoice}, c \in 0..MaxCount}

UniqueBodies ==
    {[NoBody EXCEPT !.items = items] :
        items \in {<<>>, <<Invoice>>, <<Invoice, Invoice>>,
                   <<DefaultBaseName, Invoice>>}}

RenameBodies == {[NoBody EXCEPT !.name = n] : n \in {Invoice, NewLabel(1)}}

CreateLabelStep(r) ==
    \/ CreateLabelProject(r)
    \/ CreateLabelInsert(r)
    \/ CreateLabelUpload(r)
    \/ CreateLabelSetThumbnail(r)
    \/ CreateLabelCache(r)

NewLabelStep(r) == NewLabelProject(r) \/ NewLabelFindMany(r) \/ NewLabelCreate(r)

AutoNamingStep(r) ==
    \/ AutoNamingProject(r)
    \/ AutoNamingFindMany(r)
    \/ AutoNamingCreate(r)
    \/ AutoNamingCache(r)

DuplicateStep(r) ==
    \/ DuplicateFind(r)
    \/ DuplicateFindMany(r)
    \/ DuplicateCreate(r)
    \/ DuplicateCache(r)

TemplateStep(r) ==
    \/ TemplateProject(r)
    \/ TemplateFindMany(r)
    \/ TemplateCreate(r)
    \/ TemplateCache(r)

BulkStep(r) ==
    \/ BulkProject(r)
    \/ BulkFindMany(r)
    \/ BulkRefresh(r)
    \/ BulkCreate(r)
    \/ BulkCache(r)

UniqueStep(r) ==
    \/ UniqueProject(r)
    \/ UniqueFindMany(r)
    \/ UniqueRefresh(r)
    \/ UniqueCreate(r)
    \/ UniqueCache(r)

ServiceBulkStep(r) ==
    ServiceBulkProject(r) \/ ServiceBulkFindMany(r) \/ ServiceBulkTransaction(r)

\* an update whose patch has no thumbnail goes find, cache, write
RenameStep(r) == UpdateFind(r) \/ UpdateCache(r) \/ UpdateWrite(r)

\* a project's owner, another user, and the owner of another project
Callers == {<<"u1", "p1">>, <<"u2", "p1">>, <<"u2", "p2">>}

NextCreate ==
    \/ \E c \in Callers, body \in CreateBodies :
            StartCreateLabel(SerialSlot, c[1], c[2], body)
    \/ CreateLabelStep(SerialSlot)
    \/ \E c \in Callers, body \in NamedBodies :
            StartCreateNewLabel(SerialSlot, c[1], c[2], body)
    \/ NewLabelStep(SerialSlot)
    \/ \E c \in Callers, body \in NamedBodies :
            StartCreateLabelWithAutoNaming(SerialSlot, c[1], c[2], body)
    \/ AutoNamingStep(SerialSlot)
    \/ \E u \in Users, id \in TargetIds : StartDuplicateLabel(SerialSlot, u, id)
    \/ DuplicateStep(SerialSlot)
    \/ \E c \in Callers, body \in NamedBodies :
            StartCreateLabelFromTemplate(SerialSlot, c[1], c[2], body)
    \/ TemplateStep(SerialSlot)
    \/ \E c \in Callers, body \in BulkBodies :
            StartCreateBulkLabels(SerialSlot, c[1], c[2], body)
    \/ BulkStep(SerialSlot)
    \/ \E c \in Callers, body \in UniqueBodies :
            StartCreateBulkLabelsUnique(SerialSlot, c[1], c[2], body)
    \/ UniqueStep(SerialSlot)
    \/ \E c \in Callers, body \in BulkBodies :
            StartBulkCreate(SerialSlot, c[1], c[2], body)
    \/ ServiceBulkStep(SerialSlot)
    \/ \E u \in Users, id \in TargetIds, body \in RenameBodies :
            StartUpdateLabel(SerialSlot, u, id, body)
    \/ RenameStep(SerialSlot)

SpecCreate == InitCreate /\ [][NextCreate]_vars

(***************************************************************************)
(* SpecBulk: two createBulkLabels requests, one per slot, interleaved at   *)
(* every await.                                                            *)
(***************************************************************************)
InitBulk ==
    /\ Quiet
    /\ storageOk = TRUE
    /\ \E names \in {<<>>, <<NewLabel(2)>>} : InitialStore(names)

ConcurrentBulkBodies ==
    {[NoBody EXCEPT !.name = n, !.count = c] : n \in {<<>>, Invoice}, c \in 1..2}

NextBulk ==
    \/ \E r \in Slots, u \in Users, body \in ConcurrentBulkBodies :
            /\ req[r].op = "idle"
            /\ StartCreateBulkLabels(r, u, "p1", body)
    \/ \E r \in Slots : BulkStep(r)

SpecBulk == InitBulk /\ [][NextBulk]_vars

(***************************************************************************)
(* Names within a project.                                                 *)
(***************************************************************************)
\* C5: with the operations run one at a time, no two labels of one project
\* ever have the same name.
C5_NamesUniquePerProject ==
    \A id1, id2 \in LabelIds :
        (/\ id1 # id2
         /\ Exists(id1) /\ Exists(id2)
         /\ labels[id1].projectId = labels[id2].projectId)
        => labels[id1].name # labels[id2].name

BulkOps == {"createBulkLabels", "bulkCreate"}

\* name is base followed by the smallest k >= 1 for which that is not in names
SmallestFree(name, base, names) ==
    \E k \in 1..(Cardinality(names) + 1) :
        /\ name = base \o <<ToString(k)>>
        /\ \A j \in 1..(k - 1) : (base \o <<ToString(j)>>) \in names

\* C6: a createBulk request run with no concurrent writer on a project whose
\* label names are S inserts count labels whose names are pairwise distinct
\* and not in S, each the unique name for the project's names just before
\* its insert; on an empty project with the default base name they are
\* "New Label 1" .. "New Label count".
C6_BulkNamesFreshAndNumbered ==
    \A r \in Slots :
        LET f == req[r]
            n == Len(f.created)
        IN f.op \in BulkOps =>
            /\ (f.pc = "done" /\ f.status = 201) =>
                    /\ n = f.body.count
                    /\ f.data = f.created
                    /\ \A k \in 1..n :
                            /\ labels[f.created[k].id].name = f.created[k].name
                            /\ labels[f.created[k].id].projectId = f.projectId
                    /\ (f.S = {} /\ f.body.name = <<>>) =>
                            \A k \in 1..n :
                                f.created[k].name = <<"New", "Label", ToString(k)>>
            /\ \A k \in 1..n :
                    /\ f.created[k].name \notin f.S
                    /\ SmallestFree(f.created[k].name, BulkBaseName(f.body), f.pre[k])
            /\ \A k1, k2 \in 1..n :
                    k1 # k2 => f.created[k1].name # f.created[k2].name

\* createBulkLabels of three labels on an empty project has answered 201
C6_Witness ==
    LET f == req[SerialSlot]
    IN /\ f.op = "createBulkLabels" /\ f.pc = "done" /\ f.status = 201
       /\ f.S = {} /\ f.body.name = <<>> /\ f.body.count = 3
       /\ [k \in 1..3 |-> labels[k].name] = <<NewLabel(1), NewLabel(2), NewLabel(3)>>

\* C7: a bulk request that fails after it has inserted some labels tells the
\* caller which labels it inserted.
C7_PartialFailureReportsCreated ==
    \A r \in Slots :
        LET f == req[r]
        IN (/\ f.op \in BulkOps \cup {"createBulkLabelsUnique"}
            /\ f.pc = "done"
            /\ f.status # 201
            /\ f.created # <<>>)
           => f.data = f.created

\* labels id1 and id2 are two labels of one project with one name
SameName(id1, id2) ==
    /\ id1 # id2
    /\ Exists(id1) /\ Exists(id2)
    /\ labels[id1].projectId = labels[id2].projectId
    /\ labels[id1].name = labels[id2].name

CreatedIds(f) == {f.created[k].id : k \in 1..Len(f.created)}

\* C8: the read before each insert of createBulk is not a lock.  Every name
\* is free in the names its request read, and no request repeats a name of
\* its own, but a name may be taken by the time of the insert, and then only
\* because another writer inserted between the read and the insert; two
\* same-named labels of one project are inserted by two different requests.
C8_DuplicateOnlyAcrossRequests ==
    /\ \A r \in Slots :
        LET f == req[r]
        IN /\ \A k \in 1..Len(f.created) :
                /\ f.created[k].name \notin f.from[k]
                /\ f.created[k].name \in f.pre[k] => f.pre[k] # f.from[k]
           /\ \A id1, id2 \in CreatedIds(f) : ~SameName(id1, id2)
    /\ \A id1, id2 \in LabelIds :
        SameName(id1, id2) =>
            \E r1, r2 \in Slots :
                /\ r1 # r2
                /\ id1 \in CreatedIds(req[r1])
                /\ id2 \in CreatedIds(req[r2])

\* both requests, of one base name, have answered 201 and the project holds
\* two labels of one name, one from each
C8_Witness ==
    /\ \A r \in Slots : req[r].op = "createBulkLabels" /\ req[r].status = 201
    /\ req[1].body.name = req[2].body.name
    /\ req[1].projectId = req[2].projectId
    /\ \E id1 \in CreatedIds(req[1]), id2 \in CreatedIds(req[2]) : SameName(id1, id2)

(***************************************************************************)
(* SpecLife: every label handler, one request at a time, on a store that   *)
(* holds one label of project p1 with or without a stored thumbnail.  The  *)
(* requests take the slots in turn, so the previous answer stays visible.  *)
(***************************************************************************)
Receipt == <<"Receipt">>

\* label 1 is 200 wide; its thumbnail is absent, a signed URL of an uploaded
\* md.png, or the storage path of a generated md.webp
InitLife ==
    /\ Quiet
    /\ storageOk \in BOOLEAN
    /\ nextId = 2
    /\ \E t \in {NoThumb, SignedUrl(1, "md", "png", 0), StoragePath(1, "md", "webp")} :
        /\ labels = [id \in LabelIds |->
                        IF id = 1
                        THEN [Row(Invoice, "p1", t, InitialVersion) EXCEPT
                                !.width = 200, !.fabricData = "f0"]
                        ELSE NoLabel]
        /\ blobs = IF Kind(t) = "null" THEN {} ELSE {Blob(1, "md", t[4], 0)}

\* the requests of this specification arrive one at a time, each after the
\* one before it was answered
Turn(r) == r = SerialSlot /\ req[r].pc = "done"

\* the owner of p1, another user, and that user asking for a project that
\* does not exist
LifeCallers == {<<"u1", "p1">>, <<"u2", "p1">>, <<"u2", "p0">>}

LifeCreateBodies ==
    {[NoBody EXCEPT !.name = Receipt, !.thumbnail = t] : t \in {Undefined, DataURL(1)}}

LifeBulkBody == [NoBody EXCEPT !.count = 2]

LifeUniqueBody == [NoBody EXCEPT !.items = <<Receipt, Receipt>>]

LifePatches ==
    { [NoBody EXCEPT !.name = Receipt],
      [NoBody EXCEPT !.fabricData = "f1"],
      [NoBody EXCEPT !.thumbnail = DataURL(2)] }

StartLife(r) ==
    \/ \E c \in LifeCallers, body \in LifeCreateBodies :
            Turn(r) /\ StartCreateLabel(r, c[1], c[2], body)
    \/ \E c \in LifeCallers, body \in LifeCreateBodies :
            Turn(r) /\ StartCreateLabelWithAutoNaming(r, c[1], c[2], body)
    \/ \E c \in LifeCallers : Turn(r) /\ StartCreateNewLabel(r, c[1], c[2], NoBody)
    \/ \E c \in LifeCallers : Turn(r) /\ StartCreateLabelFromTemplate(r, c[1], c[2], NoBody)
    \/ \E u \in Users, id \in TargetIds : Turn(r) /\ StartDuplicateLabel(r, u, id)
    \/ \E u \in Users, id \in TargetIds : Turn(r) /\ StartDuplicateExistingLabel(r, u, id)
    \/ \E c \in LifeCallers : Turn(r) /\ StartCreateBulkLabels(r, c[1], c[2], LifeBulkBody)
    \/ \E c \in LifeCallers : Turn(r) /\ StartCreateBulkLabelsUnique(r, c[1], c[2], LifeUniqueBody)
    \/ \E c \in LifeCallers : Turn(r) /\ StartBulkCreate(r, c[1], c[2], LifeBulkBody)
    \/ \E u \in Users, id \in TargetIds, body \in LifePatches :
            Turn(r) /\ StartUpdateLabel(r, u, id, body)
    \/ \E u \in Users, id \in TargetIds : Turn(r) /\ StartDeleteLabel(r, u, id)
    \/ \E u \in Users, id \in TargetIds : Turn(r) /\ StartRefreshThumbnailUrl(r, u, id, "md")
    \/ \E u \in Users, id \in TargetIds : Turn(r) /\ StartGenerateThumbnail(r, u, id, DataURL(2), "md")
    \/ \E u \in Users, id \in TargetIds : Turn(r) /\ StartGetLabel(r, u, id)

StepLife(r) ==
    \/ CreateLabelStep(r)
    \/ AutoNamingStep(r)
    \/ NewLabelStep(r)
    \/ TemplateStep(r)
    \/ DuplicateStep(r)
    \/ ServiceDuplicateStep(r)
    \/ BulkStep(r)
    \/ UniqueStep(r)
    \/ ServiceBulkStep(r)
    \/ UpdateLabelStep(r)
    \/ DeleteStep(r)
    \/ RefreshStep(r)
    \/ GenerateStep(r)
    \/ GetLabelStep(r)

NextLife ==
    \/ \E r \in Slots : StartLife(r)
    \/ \E r \in Slots : StepLife(r)

SpecLife == InitLife /\ [][NextLife]_vars

\* the operations whose target is a label; the others name a project
LabelOps ==
    {"updateLabel", "deleteLabel", "refreshThumbnailUrl", "generateThumbnail",
     "getLabel", "duplicateLabel", "duplicateExistingLabel"}

\* the caller of request f does not own its target: the label's project, or
\* for an operation on a project the project, is missing or another user's
NonOwner(f) ==
    IF f.op \in LabelOps
    THEN ~(/\ f.labelId \in LabelIds
           /\ Exists(f.labelId)
           /\ ProjectOwner[labels[f.labelId].projectId] = f.user)
    ELSE ~(f.projectId \in Projects /\ ProjectOwner[f.projectId] = f.user)

PairCallers == {<<"u2", "p1">>, <<"u2", "p0">>}

\* the requests arrive one at a time and take the slots in turn
PairTurn(r) ==
    /\ \A q \in Slots : req[q].pc = "done"
    /\ r = ((now - 1) % MaxSlots) + 1

StartPair(r) ==
    \/ \E c \in PairCallers, body \in LifeCreateBodies :
            PairTurn(r) /\ StartCreateLabel(r, c[1], c[2], body)
    \/ \E c \in PairCallers, body \in LifeCreateBodies :
            PairTurn(r) /\ StartCreateLabelWithAutoNaming(r, c[1], c[2], body)
    \/ \E c \in PairCallers : PairTurn(r) /\ StartCreateNewLabel(r, c[1], c[2], NoBody)
    \/ \E c \in PairCallers :
            PairTurn(r) /\ StartCreateLabelFromTemplate(r, c[1], c[2], NoBody)
    \/ \E c \in PairCallers, id \in TargetIds :
            PairTurn(r) /\ StartDuplicateLabel(r, c[1], id)
    \/ \E c \in PairCallers, id \in TargetIds :
            PairTurn(r) /\ StartDuplicateExistingLabel(r, c[1], id)
    \/ \E c \in PairCallers :
            PairTurn(r) /\ StartCreateBulkLabels(r, c[1], c[2], LifeBulkBody)
    \/ \E c \in PairCallers :
            PairTurn(r) /\ StartCreateBulkLabelsUnique(r, c[1], c[2], LifeUniqueBody)
    \/ \E c \in PairCallers : PairTurn(r) /\ StartBulkCreate(r, c[1], c[2], LifeBulkBody)
    \/ \E c \in PairCallers, id \in TargetIds, body \in LifePatches :
            PairTurn(r) /\ StartUpdateLabel(r, c[1], id, body)
    \/ \E c \in PairCallers, id \in TargetIds : PairTurn(r) /\ StartDeleteLabel(r, c[1], id)
    \/ \E c \in PairCallers, id \in TargetIds :
            PairTurn(r) /\ StartRefreshThumbnailUrl(r, c[1], id, "md")
    \/ \E c \in PairCallers, id \in TargetIds :
            PairTurn(r) /\ StartGenerateThumbnail(r, c[1], id, DataURL(2), "md")
    \/ \E c \in PairCallers, id \in TargetIds : PairTurn(r) /\ StartGetLabel(r, c[1], id)

\* the lookup of each handler
LookupPair(r) ==
    \/ CreateLabelProject(r)
    \/ AutoNamingProject(r)
    \/ NewLabelProject(r)
    \/ TemplateProject(r)
    \/ DuplicateFind(r)
    \/ ServiceDuplicateFind(r)
    \/ BulkProject(r)
    \/ UniqueProject(r)
    \/ ServiceBulkProject(r)
    \/ UpdateFind(r)
    \/ DeleteFind(r)
    \/ RefreshFind(r)
    \/ GenerateFind(r)
    \/ GetLabelFind(r)

NextPair ==
    \/ \E r \in Slots : StartPair(r)
    \/ \E r \in Slots : LookupPair(r)

\* label 1 of u1 has a thumbnail and its object; the blob store works
InitPair == InitLife /\ storageOk /\ blobs # {}

SpecPair == InitPair /\ [][NextPair]_vars

\* what the caller of request f receives
Response(f) == <<f.status, f.error, f.data, f.url, f.currentVersion, f.created>>

CreateOps ==
    {"createLabel", "createLabelWithAutoNaming", "createNewLabel",
     "createLabelFromTemplate", "duplicateLabel", "duplicateExistingLabel",
     "createBulkLabels", "createBulkLabelsUnique", "bulkCreate"}

DuplicateOps == {"duplicateLabel", "duplicateExistingLabel"}

\* C13: no step of a creating operation (createLabel, duplicateLabel,
\* createBulk, createBulkUnique and their variants) changes or removes a label
\* that the request did not insert itself, the source of a duplicate and its
\* version included; every label it inserts has version 1 and keeps it; and
\* the label a duplicate inserts has the source's content, width and height.
C13_CreationLeavesOthersAlone ==
    [][\A r \in Slots :
        (req'[r] # req[r] /\ req'[r].op \in CreateOps) =>
            /\ \A id \in LabelIds :
                    (Exists(id) /\ id \notin CreatedIds(req'[r])) =>
                        labels'[id] = labels[id]
            /\ \A id \in LabelIds :
                    (~Exists(id) /\ labels'[id] # NoLabel) =>
                        /\ id \in CreatedIds(req'[r])
                        /\ req'[r].op \in DuplicateOps =>
                            /\ labels'[id].fabricData = labels[req[r].labelId].fabricData
                            /\ labels'[id].width = labels[req[r].labelId].width
                            /\ labels'[id].height = labels[req[r].labelId].height
                            /\ labels'[req[r].labelId] = labels[req[r].labelId]
            /\ \A id \in CreatedIds(req'[r]) :
                    labels'[id] # NoLabel => labels'[id].version = InitialVersion]_vars

\* label 1, 200 wide and with content of its own, was duplicated twice, the
\* second time by the service-based handler; both copies are 200 wide with
\* that content and version 1, and label 1 is as it was
C13_Witness ==
    \E r \in Slots :
        /\ req[r].pc = "done" /\ req[r].op = "duplicateExistingLabel"
        /\ req[r].status = 201
        /\ CreatedIds(req[r]) = {3}
        /\ \A id \in {2, 3} :
                /\ Exists(id)
                /\ labels[id].width = 200 /\ labels[id].fabricData = "f0"
                /\ labels[id].version = InitialVersion
        /\ Exists(1) /\ labels[1].version = InitialVersion /\ labels[1].width = 200

\* C14: when a duplicating request of a source label that has a thumbnail is
\* answered, the label it inserted has a thumbnail reference to an object
\* stored under the new label's own id, not the source's.
C14_DuplicateThumbnailIsFresh ==
    [][\A r \in Slots :
        ( /\ req'[r] # req[r]
          /\ req'[r].op \in DuplicateOps
          /\ req'[r].pc = "done"
          /\ req'[r].status = 201
          /\ Kind(req'[r].existingLabel.thumbnail) # "null" )
        => \A id \in CreatedIds(req'[r]) :
                /\ Kind(labels'[id].thumbnail) \in {"url", "path"}
                /\ labels'[id].thumbnail[2] = id
                /\ \E b \in blobs' : b.label = id]_vars

\* request r is answered in this step
Answered(r) == req[r].pc # "done" /\ req'[r].pc = "done"

\* C15: while every blob-store call fails, a createLabel, updateLabel or
\* deleteLabel request of the owner with a valid body is answered with
\* success and no error: the label is in the store, is updated with its
\* version one higher than when the request arrived, or is gone from the
\* store, respectively.
C15_StorageFailureDoesNotFailRequest ==
    [][\A r \in Slots :
        (Answered(r) /\ ~storageOk /\ ~NonOwner(req[r])) =>
            LET f == req'[r]
            IN /\ f.op = "createLabel" =>
                    /\ f.status = 201 /\ f.error = ""
                    /\ Len(f.created) = 1
                    /\ \A id \in CreatedIds(f) :
                            /\ labels'[id] # NoLabel
                            /\ labels'[id].name = f.body.name
                            /\ labels'[id].projectId = f.projectId
               /\ f.op = "updateLabel" =>
                    /\ f.status = 200 /\ f.error = ""
                    /\ labels'[f.labelId] # NoLabel
                    /\ labels'[f.labelId].version = f.v0 + 1
                    /\ labels'[f.labelId] =
                            UpdatedRow(labels[f.labelId], f.body, f.thumbnailData, now)
               /\ f.op = "deleteLabel" =>
                    /\ f.status = 200 /\ f.error = ""
                    /\ labels[f.labelId] # NoLabel
                    /\ labels'[f.labelId] = NoLabel]_vars

\* with the blob store failing, the owner updated label 1 with a thumbnail
\* payload and then deleted it: the delete found version 2 and the payload as
\* the thumbnail, and was answered 200
C15_Witness ==
    /\ ~storageOk
    /\ \E r \in Slots :
        /\ req[r].pc = "done" /\ req[r].op = "deleteLabel" /\ req[r].status = 200
        /\ req[r].labelId = 1
        /\ req[r].existingLabel.version = InitialVersion + 1
        /\ Kind(req[r].existingLabel.thumbnail) = "data"
    /\ ~Exists(1)

\* C16: while every blob-store call fails, a createLabel request of the owner
\* with a thumbnail payload is answered with success, and the label it stored
\* has no thumbnail reference: the payload is not kept as the thumbnail.
C16_FailedUploadStoresNoThumbnail ==
    [][\A r \in Slots :
        ( /\ Answered(r)
          /\ ~storageOk
          /\ req'[r].op \in {"createLabel", "createLabelWithAutoNaming"}
          /\ ~NonOwner(req[r])
          /\ Kind(req'[r].body.thumbnail) = "data" )
        => /\ req'[r].status = 201
           /\ \A id \in CreatedIds(req'[r]) :
                /\ labels'[id] # NoLabel
                /\ labels'[id].thumbnail = NoThumb]_vars

(***************************************************************************)
(* The asset operations called on their own (StorageManager and            *)
(* ThumbnailService).  A call's outcome is [blobs, result, thrown]: the    *)
(* bucket after it, what it returned, and whether it raised instead.       *)
(***************************************************************************)
Outcome(store, result, thrown) ==
    [blobs |-> store, result |-> result, thrown |-> thrown]

\* the extension refreshThumbnailUrl puts in the path it recomputes
RefreshExt == "png"

\* the extension of THUMBNAIL_SIZES[size].format
GenerateExt == "webp"

ThumbnailSizes == <<"sm", "md", "lg">>

AllSizes == {ThumbnailSizes[i] : i \in DOMAIN ThumbnailSizes}

\* .upload(path, ...) then .createSignedUrl(data.path, 3600); either error is
\* thrown, and the catch logs and throws again
uploadFile(store, ok, labelId, size, ext, bytes, at) ==
    IF ok
    THEN Outcome(Upload(store, labelId, size, ext, bytes),
                 SignedUrl(labelId, size, ext, at), FALSE)
    ELSE Outcome(store, NoThumb, TRUE)

\* cleanupOldThumbnails, then uploadFile to labels/<id>/<size>.png; the catch
\* logs and throws again
uploadThumbnail(store, ok, labelId, size, bytes, at) ==
    uploadFile(cleanupOldThumbnails(store, ok, labelId, size),
               ok, labelId, size, "png", bytes, at)

\* Promise.all of uploadThumbnail for sm, md and lg, the store working for a
\* size or not as oks says; all three run, and if one throws the catch logs
\* and throws again
uploadThumbnailSizes(store, oks, labelId, bytes, at) ==
    LET sm == uploadThumbnail(store, oks[ThumbnailSizes[1]], labelId,
                              ThumbnailSizes[1], bytes, at)
        md == uploadThumbnail(sm.blobs, oks[ThumbnailSizes[2]], labelId,
                              ThumbnailSizes[2], bytes, at)
        lg == uploadThumbnail(md.blobs, oks[ThumbnailSizes[3]], labelId,
                              ThumbnailSizes[3], bytes, at)
    IN IF sm.thrown \/ md.thrown \/ lg.thrown
       THEN Outcome(lg.blobs, <<>>, TRUE)
       ELSE Outcome(lg.blobs, <<sm.result, md.result, lg.result>>, FALSE)

\* a refresh that stores an empty object at the path before signing it
refreshThumbnailUrlRewriting(store, ok, labelId, size, at) ==
    IF ok
    THEN Outcome(Upload(store, labelId, size, RefreshExt, 0),
                 SignedUrl(labelId, size, RefreshExt, at), FALSE)
    ELSE Outcome(store, NoThumb, FALSE)

\* getSignedUrl for labels/<id>/<size>.png; a failure is caught and null is
\* returned
refreshThumbnailUrl(store, ok, labelId, size, at) ==
    IF CanSign(store, ok, labelId, size, RefreshExt)
    THEN Outcome(store, SignedUrl(labelId, size, RefreshExt, at), FALSE)
    ELSE Outcome(store, NoThumb, FALSE)

\* a finished call of an asset operation, as a frame: the URL it returned
\* (null if none), any other value it returned, and whether it raised
Called(op, labelId, size, payload, url, data, thrown) ==
    [Idle EXCEPT !.op = op, !.labelId = labelId, !.size = size,
                 !.thumbnailData = payload,
                 !.url = IF thrown THEN NoThumb ELSE url,
                 !.data = IF thrown THEN <<>> ELSE data,
                 !.error = IF thrown THEN "THROWN" ELSE ""]

CallUploadThumbnail(r, labelId, size, payload) ==
    /\ Free(r)
    /\ LET out == uploadThumbnail(blobs, storageOk, labelId, size, Tag(payload), now)
       IN /\ blobs' = out.blobs
          /\ SetReq(r, Called("StorageManager.uploadThumbnail", labelId, size, payload,
                              out.result, <<>>, out.thrown))
    /\ now' = now + 1
    /\ UNCHANGED <<labels, nextId, storageOk, cache, thumbnailCache, nm>>

CallUploadThumbnailSizes(r, labelId, payload) ==
    /\ Free(r)
    /\ LET out == uploadThumbnailSizes(blobs, [s \in AllSizes |-> storageOk], labelId,
                                       Tag(payload), now)
       IN /\ blobs' = out.blobs
          /\ SetReq(r, Called("StorageManager.uploadThumbnailSizes", labelId, "md", payload,
                              NoThumb, out.result, out.thrown))
    /\ now' = now + 1
    /\ UNCHANGED <<labels, nextId, storageOk, cache, thumbnailCache, nm>>

CallDeleteLabelThumbnails(r, labelId) ==
    /\ Free(r)
    /\ blobs' = deleteLabelThumbnails(blobs, storageOk, labelId)
    /\ SetReq(r, Called("StorageManager.deleteLabelThumbnails", labelId, "", Undefined,
                        NoThumb, <<>>, FALSE))
    /\ now' = now + 1
    /\ UNCHANGED <<labels, nextId, storageOk, cache, thumbnailCache, nm>>

CallCleanupOldThumbnails(r, labelId, size) ==
    /\ Free(r)
    /\ blobs' = cleanupOldThumbnails(blobs, storageOk, labelId, size)
    /\ SetReq(r, Called("StorageManager.cleanupOldThumbnails", labelId, size, Undefined,
                        NoThumb, <<>>, FALSE))
    /\ now' = now + 1
    /\ UNCHANGED <<labels, nextId, storageOk, cache, thumbnailCache, nm>>

CallRefreshThumbnailUrl(r, labelId, size) ==
    /\ Free(r)
    /\ LET out == refreshThumbnailUrl(blobs, storageOk, labelId, size, now)
       IN /\ blobs' = out.blobs
          /\ SetReq(r, Called("StorageManager.refreshThumbnailUrl", labelId, size,
                              Undefined, out.result, <<>>, out.thrown))
    /\ now' = now + 1
    /\ UNCHANGED <<labels, nextId, storageOk, cache, thumbnailCache, nm>>

\* ThumbnailService.getThumbnailUrl: its catch returns null
CallGetThumbnailUrl(r, labelId, size) ==
    /\ Free(r)
    /\ \E out \in getThumbnailUrl(labelId, size) :
        /\ thumbnailCache' = out[2]
        /\ SetReq(r, Called("ThumbnailService.getThumbnailUrl", labelId, size, Undefined,
                            out[1], <<>>, FALSE))
    /\ now' = now + 1
    /\ UNCHANGED <<labels, nextId, blobs, storageOk, cache, nm>>

\* ThumbnailService.generateThumbnail: getLabelById, uploadFile to
\* labels/<id>/<size>.<format>, LabelService.updateThumbnail(labelId, path),
\* thumbnailCache.delete; false when the label is missing or anything throws
CallGenerateThumbnail(r, labelId, size, payload) ==
    /\ Free(r)
    /\ LET up == uploadFile(blobs, storageOk, labelId, size, GenerateExt,
                            Tag(payload), now)
           done == Exists(labelId) /\ ~up.thrown
       IN /\ blobs' = IF Exists(labelId) THEN up.blobs ELSE blobs
          /\ labels' = IF done
                       THEN [labels EXCEPT ![labelId] =
                                WithThumbnail(@, StoragePath(labelId, size, GenerateExt), now)]
                       ELSE labels
          /\ thumbnailCache' =
                IF done
                THEN {c \in thumbnailCache : ~(c.label = labelId /\ c.size = size)}
                ELSE thumbnailCache
          /\ SetReq(r, Called("ThumbnailService.generateThumbnail", labelId, size, payload,
                              NoThumb, <<done>>, FALSE))
    /\ now' = now + 1
    /\ UNCHANGED <<nextId, storageOk, cache, nm>>

\* the bucket holds any of label 1's objects; the store works or fails
InitAsset ==
    /\ Quiet
    /\ storageOk \in BOOLEAN
    /\ nextId = 2
    /\ labels = [id \in LabelIds |->
                    IF id = 1 THEN Row(Invoice, "p1", NoThumb, InitialVersion)
                    ELSE NoLabel]
    /\ blobs \in SUBSET {Blob(1, "md", "png", 0), Blob(1, "md", "webp", 0),
                         Blob(1, "sm", "png", 0)}

AssetSizes == {"sm", "md"}

NextAsset ==
    \E r \in Slots, labelId \in TargetIds, size \in AssetSizes :
        \/ CallUploadThumbnail(r, labelId, size, DataURL(1))
        \/ CallUploadThumbnailSizes(r, labelId, DataURL(1))
        \/ CallDeleteLabelThumbnails(r, labelId)
        \/ CallCleanupOldThumbnails(r, labelId, size)
        \/ CallRefreshThumbnailUrl(r, labelId, size)
        \/ CallGetThumbnailUrl(r, labelId, size)
        \/ CallGenerateThumbnail(r, labelId, size, DataURL(1))

SpecAsset == InitAsset /\ [][NextAsset]_vars

AssetOps ==
    {"StorageManager.uploadThumbnail", "StorageManager.uploadThumbnailSizes",
     "StorageManager.deleteLabelThumbnails", "StorageManager.cleanupOldThumbnails",
     "StorageManager.refreshThumbnailUrl", "ThumbnailService.getThumbnailUrl",
     "ThumbnailService.generateThumbnail"}

\* C17: while every blob-store call fails, a call of an asset operation
\* returns null, nothing or false, and does not raise an error.
C17_AssetOperationsNeverRaise ==
    \A r \in Slots :
        (req[r].op \in AssetOps /\ ~storageOk) =>
            /\ req[r].error # "THROWN"
            /\ req[r].url = NoThumb
            /\ req[r].data \in {<<>>, <<FALSE>>}

WriteOps == {"StorageManager.uploadThumbnail", "ThumbnailService.generateThumbnail"}

\* C18: after a thumbnail write for (labelId, size) succeeds, through
\* StorageManager.uploadThumbnail or ThumbnailService.generateThumbnail, the
\* path that refreshThumbnailUrl recomputes from labelId and size holds the
\* bytes just written, so the refreshed URL resolves to the uploaded object.
C18_RefreshedPathIsWrittenPath ==
    [][\A r \in Slots :
        ( /\ req'[r] # req[r]
          /\ req'[r].op \in WriteOps
          /\ req'[r].error = ""
          /\ req'[r].url # NoThumb \/ req'[r].data = <<TRUE>> )
        => LET f == req'[r]
               refreshed == refreshThumbnailUrl(blobs', storageOk, f.labelId, f.size, now')
           IN /\ refreshed.result # NoThumb
              /\ BlobsAt(blobs', f.labelId, f.size, refreshed.result[4]) =
                    {Blob(f.labelId, f.size, refreshed.result[4], Tag(f.thumbnailData))}]_vars

\* C19: when a deleteLabel request is answered with success while the blob
\* store works, no object of that label is left in the bucket, whatever the
\* label's stored thumbnail reference was.
C19_DeleteLeavesNoObject ==
    [][\A r \in Slots :
        ( /\ Answered(r)
          /\ req'[r].op = "deleteLabel"
          /\ req'[r].status = 200
          /\ storageOk )
        => /\ labels'[req'[r].labelId] = NoLabel
           /\ \A b \in blobs' : b.label # req'[r].labelId]_vars

\* the object an updateLabel request with a thumbnail payload uploads
Uploaded(f) == Blob(f.labelId, "md", "png", Tag(f.body.thumbnail))

\* C20: in an updateLabel request whose patch has a thumbnail payload, objects
\* leave the bucket only in the steps before the upload, the upload adds just
\* the new object, and no step after the upload changes the bucket: the new
\* object is there when the request is answered.
C20_CleanupBeforeUpload ==
    [][\A r \in Slots :
        ( /\ req[r].op = "updateLabel"
          /\ req[r].pc # "done"
          /\ req'[r] # req[r]
          /\ Kind(req[r].body.thumbnail) = "data" )
        => /\ blobs \ blobs' # {} => req[r].pc \in {"deleteOld", "cleanup"}
           /\ blobs' \ blobs # {} =>
                /\ req[r].pc = "upload"
                /\ blobs' \ blobs = {Uploaded(req[r])}
           /\ req[r].pc \in {"cache", "write"} => blobs' = blobs
           /\ (req'[r].pc = "done" /\ req'[r].status = 200 /\ storageOk) =>
                /\ Uploaded(req[r]) \in blobs'
                /\ \A b \in blobs' : b.label = req[r].labelId => b = Uploaded(req[r])]_vars

\* the owner updated label 1, whose thumbnail was a signed URL with its object
\* in the bucket, with a new payload: the old object is gone and the new one
\* is there
C20_Witness ==
    \E r \in Slots :
        /\ req[r].op = "updateLabel" /\ req[r].pc = "done" /\ req[r].status = 200
        /\ Kind(req[r].body.thumbnail) = "data"
        /\ Kind(req[r].existingLabel.thumbnail) = "url"
        /\ storageOk
        /\ Uploaded(req[r]) \in blobs
        /\ Blob(1, "md", "png", 0) \notin blobs
        /\ Kind(labels[1].thumbnail) = "url"

RefreshOps == {"StorageManager.refreshThumbnailUrl", "ThumbnailService.getThumbnailUrl"}

\* the bytes a URL resolves to in the bucket `store`
Resolve(store, url) == {b.bytes : b \in BlobsAt(store, url[2], url[3], url[4])}

\* C21: a call of refreshThumbnailUrl or getThumbnailUrl leaves the bucket as
\* it was, and when it follows at once a call for the same label and size
\* that returned a URL, it returns a URL too and both URLs resolve to the same
\* stored bytes.
C21_RefreshLeavesBytes ==
    [][\A r \in Slots :
        (req'[r] # req[r] /\ req'[r].op \in RefreshOps) =>
            /\ blobs' = blobs
            /\ \A q \in Slots \ {r} :
                ( /\ req[q].op \in RefreshOps
                  /\ req[q].labelId = req'[r].labelId
                  /\ req[q].size = req'[r].size
                  /\ req[q].url # NoThumb
                  /\ req[q].url[5] = now - 1 )
                => /\ req'[r].url # NoThumb
                   /\ Resolve(blobs', req'[r].url) = Resolve(blobs', req[q].url)
                   /\ Resolve(blobs', req'[r].url) # {}]_vars

\* refreshThumbnailUrl was called twice in succession for one label and size;
\* the two URLs differ and resolve to the one stored object
C21_Witness ==
    \E r, q \in Slots :
        /\ r # q
        /\ req[r].op = "StorageManager.refreshThumbnailUrl"
        /\ req[q].op = "StorageManager.refreshThumbnailUrl"
        /\ req[r].labelId = req[q].labelId /\ req[r].size = req[q].size
        /\ req[r].url # NoThumb /\ req[q].url # NoThumb
        /\ req[r].url # req[q].url
        /\ Resolve(blobs, req[r].url) = Resolve(blobs, req[q].url)
        /\ Resolve(blobs, req[r].url) # {}

(***************************************************************************)
(* The project listing and its cache.  The owner of p1 sends the mutating  *)
(* requests one at a time; getProjects is read by either user in between.  *)
(* The specification follows project p1 up to its deletion.                *)
(***************************************************************************)
OwnerTurn(r) ==
    /\ Turn(r)
    /\ ~(req[r].op = "deleteProject" /\ req[r].status = 200)

CachedPatches ==
    { [NoBody EXCEPT !.name = Receipt],
      [NoBody EXCEPT !.thumbnail = DataURL(2)] }

StartCached(r) ==
    \/ \E u \in Users : OwnerTurn(r) /\ StartGetProjects(r, u)
    \/ OwnerTurn(r) /\ StartDeleteProject(r, "u1", "p1")
    \/ \E body \in LifeCreateBodies : OwnerTurn(r) /\ StartCreateLabel(r, "u1", "p1", body)
    \/ \E body \in LifeCreateBodies :
            OwnerTurn(r) /\ StartCreateLabelWithAutoNaming(r, "u1", "p1", body)
    \/ OwnerTurn(r) /\ StartCreateNewLabel(r, "u1", "p1", NoBody)
    \/ OwnerTurn(r) /\ StartCreateLabelFromTemplate(r, "u1", "p1", NoBody)
    \/ \E id \in TargetIds : OwnerTurn(r) /\ StartDuplicateLabel(r, "u1", id)
    \/ \E id \in TargetIds : OwnerTurn(r) /\ StartDuplicateExistingLabel(r, "u1", id)
    \/ OwnerTurn(r) /\ StartCreateBulkLabels(r, "u1", "p1", LifeBulkBody)
    \/ OwnerTurn(r) /\ StartCreateBulkLabelsUnique(r, "u1", "p1", LifeUniqueBody)
    \/ OwnerTurn(r) /\ StartBulkCreate(r, "u1", "p1", LifeBulkBody)
    \/ \E id \in TargetIds, body \in CachedPatches :
            OwnerTurn(r) /\ StartUpdateLabel(r, "u1", id, body)
    \/ \E id \in TargetIds : OwnerTurn(r) /\ StartDeleteLabel(r, "u1", id)
    \/ \E id \in TargetIds : OwnerTurn(r) /\ StartRefreshThumbnailUrl(r, "u1", id, "md")
    \/ \E id \in TargetIds :
            OwnerTurn(r) /\ StartGenerateThumbnail(r, "u1", id, DataURL(2), "md")
    \/ \E id \in TargetIds : OwnerTurn(r) /\ StartGetLabel(r, "u1", id)

StepCached(r) ==
    \/ GetProjectsStep(r)
    \/ DeleteProjectStep(r)
    \/ StepLife(r)

NextCached ==
    \/ \E r \in Slots : StartCached(r)
    \/ \E r \in Slots : StepCached(r)

SpecCached == InitLife /\ [][NextCached]_vars

\* the operations that change a label or a project
MutatingOps ==
    CreateOps \cup {"updateLabel", "deleteLabel", "refreshThumbnailUrl",
                    "generateThumbnail", "deleteProject"}

Succeeded(f) == f.status \in {200, 201}

\* the entries of cache c that hold a project listing of the user
ListingEntries(c, userId) == {e \in c : HasPrefix(e.key, <<"projects", userId>>)}

\* C22: when a label or project mutation (create, duplicate, bulk-create,
\* update, delete, thumbnail refresh, project delete) of the owner is answered
\* with success and no other request is in progress, the cache holds no
\* project-listing entry of that user: every such entry was stored before the
\* mutation, so the user's next listing read is computed from the store.
C22_MutationInvalidatesListing ==
    [][\A r \in Slots :
        ( /\ Answered(r)
          /\ req'[r].op \in MutatingOps
          /\ Succeeded(req'[r]) )
        => ListingEntries(cache', req'[r].user) = {}]_vars

(***************************************************************************)
(* StorageManager.uploadThumbnail step by step.  Each of its three calls   *)
(* to the blob store (the removal in cleanupOldThumbnails, .upload and     *)
(* .createSignedUrl) works or fails on its own; calls for the same label   *)
(* may run side by side.  The frame keeps the steps taken so far in `from` *)
(* and the steps that failed in `S`.                                       *)
(***************************************************************************)
UploadSteps == <<"cleanup", "upload", "sign">>

StartUploadThumbnail(r, labelId, size, payload) ==
    /\ Free(r)
    /\ SetReq(r, [Idle EXCEPT !.op = "StorageManager.uploadThumbnail",
                              !.pc = "cleanup", !.labelId = labelId,
                              !.size = size, !.thumbnailData = payload])
    /\ now' = now + 1
    /\ UNCHANGED <<labels, nextId, blobs, storageOk, cache, thumbnailCache, nm>>

\* a cleanup whose failure is thrown on to the caller of uploadThumbnail
UploadThumbnailCleanupAborting(r) ==
    /\ req[r].op = "StorageManager.uploadThumbnail" /\ req[r].pc = "cleanup"
    /\ \E ok \in BOOLEAN :
        /\ blobs' = cleanupOldThumbnails(blobs, ok, req[r].labelId, req[r].size)
        /\ SetReq(r, IF ok
                     THEN [req[r] EXCEPT !.pc = "upload", !.from = <<"cleanup">>]
                     ELSE [Reply(req[r], 0, "THROWN") EXCEPT
                              !.from = <<"cleanup">>, !.S = {"cleanup"}])
    /\ UNCHANGED <<labels, nextId, now, storageOk, cache, thumbnailCache, nm>>

\* await this.cleanupOldThumbnails(labelId, size): an error of the removal is
\* logged, a throw is caught
UploadThumbnailCleanup(r) ==
    /\ req[r].op = "StorageManager.uploadThumbnail" /\ req[r].pc = "cleanup"
    /\ \E ok \in BOOLEAN :
        /\ blobs' = cleanupOldThumbnails(blobs, ok, req[r].labelId, req[r].size)
        /\ SetReq(r, [req[r] EXCEPT !.pc = "upload", !.from = <<"cleanup">>,
                                    !.S = IF ok THEN {} ELSE {"cleanup"}])
    /\ UNCHANGED <<labels, nextId, now, storageOk, cache, thumbnailCache, nm>>

\* uploadFile: .upload(`labels/${labelId}/${size}.png`, buffer, { upsert: true });
\* an error is thrown
UploadThumbnailUpload(r) ==
    /\ req[r].op = "StorageManager.uploadThumbnail" /\ req[r].pc = "upload"
    /\ LET f == [req[r] EXCEPT !.from = Append(@, "upload")]
       IN \E ok \in BOOLEAN :
            IF ok
            THEN /\ blobs' = Upload(blobs, f.labelId, f.size, "png", Tag(f.thumbnailData))
                 /\ SetReq(r, [f EXCEPT !.pc = "sign"])
            ELSE /\ blobs' = blobs
                 /\ SetReq(r, [Reply(f, 0, "THROWN") EXCEPT !.S = @ \cup {"upload"}])
    /\ UNCHANGED <<labels, nextId, now, storageOk, cache, thumbnailCache, nm>>

\* uploadFile: .createSignedUrl(data.path, 3600); an error is thrown, else
\* { url, path } is returned
UploadThumbnailSign(r) ==
    /\ req[r].op = "StorageManager.uploadThumbnail" /\ req[r].pc = "sign"
    /\ LET f == [req[r] EXCEPT !.from = Append(@, "sign")]
       IN \E ok \in BOOLEAN :
            IF CanSign(blobs, ok, f.labelId, f.size, "png")
            THEN SetReq(r, [Reply(f, 0, "") EXCEPT
                              !.url = SignedUrl(f.labelId, f.size, "png", now),
                              !.data = <<StoragePath(f.labelId, f.size, "png")>>])
            ELSE SetReq(r, [Reply(f, 0, "THROWN") EXCEPT !.S = @ \cup {"sign"}])
    /\ UNCHANGED <<labels, nextId, now, blobs, storageOk, cache, thumbnailCache, nm>>

UploadThumbnailStep(r) ==
    UploadThumbnailCleanup(r) \/ UploadThumbnailUpload(r) \/ UploadThumbnailSign(r)

\* the bucket holds nothing of label 1, what an earlier uploadThumbnail left,
\* what a generateThumbnail left, or both
InitUpload ==
    /\ Quiet
    /\ storageOk = TRUE
    /\ nextId = 2
    /\ labels = [id \in LabelIds |->
                    IF id = 1 THEN Row(Invoice, "p1", NoThumb, InitialVersion)
                    ELSE NoLabel]
    /\ blobs \in SUBSET {Blob(1, "md", "png", 0), Blob(1, "md", "webp", 0)}

NextUpload ==
    \/ \E r \in Slots, size \in AssetSizes, n \in 1..2 :
            StartUploadThumbnail(r, 1, size, DataURL(n))
    \/ \E r \in Slots : UploadThumbnailStep(r)

SpecUpload == InitUpload /\ [][NextUpload]_vars

IsPrefix(s, t) == Len(s) <= Len(t) /\ s = SubSeq(t, 1, Len(s))

\* the objects of a label's size in a bucket
OfSize(store, label, size) == {b \in store : b.label = label /\ b.size = size}

Failing(oks) == {s \in AllSizes : ~oks[s]}

CallUploadThumbnailSizesPerSize(r, labelId, payload, oks) ==
    /\ Free(r)
    /\ LET out == uploadThumbnailSizes(blobs, oks, labelId, Tag(payload), now)
       IN /\ blobs' = out.blobs
          /\ SetReq(r, [Called("StorageManager.uploadThumbnailSizes", labelId, "",
                               payload, NoThumb, out.result, out.thrown)
                            EXCEPT !.S = Failing(oks)])
    /\ now' = now + 1
    /\ UNCHANGED <<labels, nextId, storageOk, cache, thumbnailCache, nm>>

\* Promise.all of generateThumbnail for sm, md and lg, each of which catches
\* its own failure and returns false; the label keeps the path written last;
\* the result is `results.every(result => result === true)`
CallGenerateAllSizes(r, labelId, payload, oks) ==
    /\ Free(r)
    /\ LET sm == uploadFile(blobs, oks[ThumbnailSizes[1]], labelId, ThumbnailSizes[1],
                            GenerateExt, Tag(payload), now)
           md == uploadFile(sm.blobs, oks[ThumbnailSizes[2]], labelId, ThumbnailSizes[2],
                            GenerateExt, Tag(payload), now)
           lg == uploadFile(md.blobs, oks[ThumbnailSizes[3]], labelId, ThumbnailSizes[3],
                            GenerateExt, Tag(payload), now)
           done == IF Exists(labelId) THEN AllSizes \ Failing(oks) ELSE {}
       IN /\ blobs' = IF Exists(labelId) THEN lg.blobs ELSE blobs
          /\ IF done = {}
             THEN labels' = labels
             ELSE \E last \in done :
                    labels' = [labels EXCEPT ![labelId] =
                                 WithThumbnail(@, StoragePath(labelId, last, GenerateExt), now)]
          /\ thumbnailCache' =
                {c \in thumbnailCache : ~(c.label = labelId /\ c.size \in done)}
          /\ SetReq(r, [Called("ThumbnailService.generateAllSizes", labelId, "", payload,
                               NoThumb, <<done = AllSizes>>, FALSE)
                            EXCEPT !.S = Failing(oks)])
    /\ now' = now + 1
    /\ UNCHANGED <<nextId, storageOk, cache, nm>>

NextSizes ==
    \E r \in Slots, labelId \in TargetIds, n \in 1..2, oks \in [AllSizes -> BOOLEAN] :
        \/ CallUploadThumbnailSizesPerSize(r, labelId, DataURL(n), oks)
        \/ CallGenerateAllSizes(r, labelId, DataURL(n), oks)

InitSizes == InitAsset /\ storageOk

SpecSizes == InitSizes /\ [][NextSizes]_vars

\* the URL a finished uploadThumbnailSizes call returned for a size, if any
SizeResult(f, size) ==
    {f.data[i] : i \in {j \in DOMAIN f.data : ThumbnailSizes[j] = size}}

\* C24: when a multi-size generation over sm, md and lg has the upload of
\* exactly one size fail, the objects of the other two sizes are uploaded,
\* and an uploadThumbnailSizes call returns the URLs of those two sizes to
\* its caller.
C24_SizesAreIndependent ==
    [][\A r \in Slots :
        ( /\ req'[r] # req[r]
          /\ req'[r].op \in {"StorageManager.uploadThumbnailSizes",
                              "ThumbnailService.generateAllSizes"}
          /\ Exists(req'[r].labelId)
          /\ Cardinality(req'[r].S) = 1 )
        => \A size \in AllSizes \ req'[r].S :
             /\ \E b \in OfSize(blobs', req'[r].labelId, size) :
                    b.bytes = Tag(req'[r].thumbnailData)
             /\ req'[r].op = "StorageManager.uploadThumbnailSizes" =>
                    /\ req'[r].error = ""
                    /\ \E u \in SizeResult(req'[r], size) : Kind(u) = "url"]_vars

Quiescent == \A r \in Slots : req[r].pc = "done"

ProjectDeleted == \E r \in Slots : req[r].op = "deleteProject" /\ req[r].status = 200

StartRace(r) ==
    \/ ~ProjectDeleted /\ StartGetProjects(r, "u1")
    \/ \E body \in CachedPatches : ~ProjectDeleted /\ StartUpdateLabel(r, "u1", 1, body)
    \/ ~ProjectDeleted /\ StartDeleteLabel(r, "u1", 1)
    \/ ~ProjectDeleted /\ StartGenerateThumbnail(r, "u1", 1, DataURL(2), "md")
    \/ ~ProjectDeleted /\ Quiescent /\ StartDeleteProject(r, "u1", "p1")

StepRace(r) ==
    \/ GetProjectsStep(r)
    \/ UpdateLabelStep(r)
    \/ DeleteStep(r)
    \/ GenerateStep(r)
    \/ DeleteProjectStep(r)

NextRace ==
    \/ \E r \in Slots : StartRace(r)
    \/ \E r \in Slots : StepRace(r)

InitRace == InitLife /\ storageOk

SpecRace == InitRace /\ [][NextRace]_vars

\* C26: when a getProjects read of the owner made its store query while an
\* updateLabel or deleteLabel of one of the owner's labels was between its
\* cache invalidation and its durable write, and both have been answered
\* (the mutation with success), every project-listing entry of the owner in
\* the cache holds the listing of the store as it now is.
C26_NoStaleListingAfterRace ==
    \A g \in Slots, q \in Slots :
        ( /\ req[g].op = "getProjects" /\ req[g].pc = "done"
          /\ q \in req[g].S
          /\ req[q].op \in {"updateLabel", "deleteLabel"}
          /\ req[q].pc = "done" /\ Succeeded(req[q])
          /\ req[q].user = req[g].user )
        => \A e \in ListingEntries(cache, req[g].user) :
                e.value = Listing(labels, req[g].user)

\* C27: whenever no request is in progress and the blob store works, every
\* object in the bucket lies under labels/<id>/ of a label that is in the
\* store, also after deleteProject and after a deleteLabel that ran beside an
\* updateLabel or generateThumbnail upload for the same label.
C27_NoOrphanObjects ==
    (Quiescent /\ storageOk) => \A b \in blobs : Exists(b.label)

\* C28: an updateLabel request whose body carries a version is not turned
\* down by the validation of the body: it is answered with an outcome of the
\* steps after it, and with VERSION_CONFLICT (409) when the caller owns the
\* label and the version supplied is not the stored one.
C28_VersionPassesValidation ==
    \A r \in Slots :
        ( /\ req[r].op = "updateLabel"
          /\ req[r].pc = "done"
          /\ req[r].body.version # NoVersion )
        => /\ req[r].error # "VALIDATION"
           /\ ( /\ req[r].user = "u1"
                /\ req[r].labelId = 1
                /\ req[r].body.version # req[r].v0 )
              => req[r].status = 409

(***************************************************************************)
(* The in-process cache backend (memoryCache, used when no Redis client    *)
(* is connected).  In this specification `cache` is the Map itself: a set  *)
(* of [key, value, expiresAt, given], where value is the JSON text stored, *)
(* expiresAt the time from which the entry counts as expired, and `given`  *)
(* (history) the value that was passed to set.  `now` is Date.now().  A    *)
(* JavaScript value is <<kind, content>>; a JSON text is written as the    *)
(* value it denotes.                                                       *)
(***************************************************************************)
JsUndefined == <<"undefined", "">>

JsNull == <<"null", "">>

\* a string, the number 0, a Date (as prisma returns for createdAt and
\* updatedAt) and undefined
JsValues == {<<"string", "d1">>, <<"number", "0">>, <<"date", "d1">>, JsUndefined}

\* JSON.stringify: a Date becomes the text of its ISO string; undefined has
\* no text, the result is undefined
JsonStringify(v) == IF v[1] = "date" THEN <<"string", v[2]>> ELSE v

\* JSON.parse of a text
JsonParse(text) == text

\* `if (serializedValue)`: undefined is falsy, a JSON text is never empty
Truthy(text) == text # JsUndefined

MemEntry(key, value, expiresAt, given) ==
    [key |-> key, value |-> value, expiresAt |-> expiresAt, given |-> given]

MemAt(c, key) == {e \in c : e.key = key}

\* CacheManager.set without Redis: memoryCache.set(key, { value:
\* JSON.stringify(value), expiresAt: Date.now() + ttl * 1000 })
memSet(c, key, value, ttl, at) ==
    (c \ MemAt(c, key)) \cup {MemEntry(key, JsonStringify(value), at + ttl, value)}

\* a get that still reports an entry at its expiry time
memGetInclusive(c, key, at) ==
    LET live == {e \in MemAt(c, key) : e.expiresAt >= at}
        text == {e.value : e \in live}
    IN [cache |-> c \ (MemAt(c, key) \ live),
        result |-> IF \E t \in text : Truthy(t)
                   THEN JsonParse(CHOOSE t \in text : Truthy(t))
                   ELSE JsNull]

\* CacheManager.get without Redis: the text of an entry with expiresAt >
\* Date.now(), parsed; an entry found expired is deleted; otherwise null
memGet(c, key, at) ==
    LET live == {e \in MemAt(c, key) : e.expiresAt > at}
        text == {e.value : e \in live}
    IN [cache |-> c \ (MemAt(c, key) \ live),
        result |-> IF \E t \in text : Truthy(t)
                   THEN JsonParse(CHOOSE t \in text : Truthy(t))
                   ELSE JsNull]

\* CacheManager.exists without Redis
memExists(c, key, at) == \E e \in MemAt(c, key) : e.expiresAt > at

\* CacheManager.cleanupMemoryCache: deletes the entries with expiresAt <= now
cleanupMemoryCache(c, at) == {e \in c : ~(e.expiresAt <= at)}

MemKeys == {"k1", "k2"}

MemTTLs == {1, 2}

\* a finished call: its name, its key and what it returned; `i` tells one
\* call from the next
MemCalled(r, op, key, result) ==
    SetReq(r, [Idle EXCEPT !.op = op, !.projectId = key, !.data = <<result>>,
                           !.i = 1 - req[r].i])

CallMemSet(r, key, value, ttl) ==
    /\ r = SerialSlot
    /\ cache' = memSet(cache, key, value, ttl, now)
    /\ MemCalled(r, "CacheManager.set", key, JsUndefined)
    /\ UNCHANGED <<labels, nextId, now, blobs, storageOk, thumbnailCache, nm>>

CallMemGet(r, key) ==
    /\ r = SerialSlot
    /\ cache' = memGet(cache, key, now).cache
    /\ MemCalled(r, "CacheManager.get", key, memGet(cache, key, now).result)
    /\ UNCHANGED <<labels, nextId, now, blobs, storageOk, thumbnailCache, nm>>

CallMemExists(r, key) ==
    /\ r = SerialSlot
    /\ MemCalled(r, "CacheManager.exists", key,
                 <<"boolean", IF memExists(cache, key, now) THEN "true" ELSE "false">>)
    /\ UNCHANGED <<labels, nextId, now, blobs, storageOk, cache, thumbnailCache, nm>>

\* the setInterval callback
CallCleanupMemoryCache(r) ==
    /\ r = SerialSlot
    /\ cache' = cleanupMemoryCache(cache, now)
    /\ MemCalled(r, "CacheManager.cleanupMemoryCache", "", JsUndefined)
    /\ UNCHANGED <<labels, nextId, now, blobs, storageOk, thumbnailCache, nm>>

\* time passes
MemTick ==
    /\ now < MaxNow
    /\ now' = now + 1
    /\ UNCHANGED <<labels, nextId, blobs, storageOk, cache, thumbnailCache, req, nm>>

InitMemory ==
    /\ Quiet
    /\ storageOk = TRUE
    /\ nextId = 1
    /\ labels = [id \in LabelIds |-> NoLabel]
    /\ blobs = {}

NextMemory ==
    \/ \E r \in Slots, key \in MemKeys, value \in JsValues, ttl \in MemTTLs :
            CallMemSet(r, key, value, ttl)
    \/ \E r \in Slots, key \in MemKeys : CallMemGet(r, key)
    \/ \E r \in Slots, key \in MemKeys : CallMemExists(r, key)
    \/ \E r \in Slots : CallCleanupMemoryCache(r)
    \/ MemTick

SpecMemory == InitMemory /\ [][NextMemory]_vars

\* what a get returns for a live entry: the JSON round trip of the value
\* given to set, null if the value has no JSON text
RoundTrip(v) ==
    IF JsonStringify(v) = JsUndefined THEN JsNull ELSE JsonParse(JsonStringify(v))

\* C29: in the in-process backend a get or exists never reports an entry at
\* or after its expiry time; a get before expiry returns the JSON round trip
\* of the value that was set (the value itself when it is plain JSON data);
\* get and the sweep delete only entries whose expiry time has passed, and
\* the sweep changes the result of no get.
C29_ExpiryAndSweep ==
    [][\A r \in Slots :
        req'[r] # req[r] =>
          LET key == req'[r].projectId
              result == req'[r].data[1]
              live == {e \in MemAt(cache, key) : e.expiresAt > now}
          IN /\ req'[r].op = "CacheManager.get" =>
                  /\ result # JsNull => live # {}
                  /\ \A e \in live : result = RoundTrip(e.given)
                  /\ cache' \subseteq cache
                  /\ \A e \in cache \ cache' : e.expiresAt <= now
             /\ req'[r].op = "CacheManager.exists" =>
                  (result = <<"boolean", "true">>) = (live # {})
             /\ req'[r].op = "CacheManager.cleanupMemoryCache" =>
                  /\ cache' \subseteq cache
                  /\ \A e \in cache \ cache' : e.expiresAt <= now
                  /\ \A k \in MemKeys :
                        memGet(cache', k, now).result = memGet(cache, k, now).result]_vars

\* C29 as stated: as above, with a get before expiry returning the very
\* value that was set.
C29_GetReturnsValueSet ==
    [][\A r \in Slots :
        req'[r] # req[r] =>
          LET key == req'[r].projectId
              result == req'[r].data[1]
              live == {e \in MemAt(cache, key) : e.expiresAt > now}
          IN /\ req'[r].op = "CacheManager.get" =>
                  /\ result # JsNull => live # {}
                  /\ \A e \in live : result = e.given
                  /\ cache' \subseteq cache
                  /\ \A e \in cache \ cache' : e.expiresAt <= now
             /\ req'[r].op = "CacheManager.exists" =>
                  (result = <<"boolean", "true">>) = (live # {})
             /\ req'[r].op = "CacheManager.cleanupMemoryCache" =>
                  /\ cache' \subseteq cache
                  /\ \A e \in cache \ cache' : e.expiresAt <= now
                  /\ \A k \in MemKeys :
                        memGet(cache', k, now).result = memGet(cache, k, now).result]_vars

\* a get has returned a string for an entry set with a Date, while an expired
\* entry that no sweep has removed is still in the Map
C29_Witness ==
    \E r \in Slots, e \in cache, x \in cache :
        /\ req[r].op = "CacheManager.get"
        /\ req[r].projectId = e.key
        /\ e.expiresAt > now
        /\ e.given = <<"date", "d1">>
        /\ req[r].data = <<(<<"string", "d1">>)>>
        /\ x.key # e.key
        /\ x.expiresAt <= now

(***************************************************************************)
(* CacheManager.deletePattern on its two backends.  CacheDeletePattern is  *)
(* the branch with a Redis client (redis.keys(pattern), a glob match);     *)
(* memDeletePattern is the branch without one.  A key is the sequence of   *)
(* its colon-separated parts, so a match that starts inside a part is not  *)
(* seen here.                                                              *)
(***************************************************************************)
\* key.includes(pattern.replace('*', '')): the text `<prefix>:` occurs
\* somewhere in the key
Includes(key, prefix) ==
    \E i \in 1..Len(key) :
        /\ i + Len(prefix) - 1 < Len(key)
        /\ SubSeq(key, i, i + Len(prefix) - 1) = prefix

\* deletePattern without Redis
memDeletePattern(c, prefix) == {e \in c : ~Includes(e.key, prefix)}

\* keys of the shapes the handlers set and delete; the last part of a
\* projects key is the caller's search text
PatternKeys ==
    { ProjectsKey("u1"), ProjectsKey("u2"),
      <<"projects", "u2", "1", "10", "projects", "u1", "x">>,
      <<"labels", "project", "p1", "1">>,
      <<"project", "p1", "labels">>,
      <<"templates", "all">> }

\* projects:<userId>:*, project:<projectId>:*, labels:project:<projectId>:*
\* and templates:*
Patterns ==
    { <<"projects", "u1">>, <<"projects", "u2">>, <<"project", "p1">>,
      <<"labels", "project", "p1">>, <<"templates">> }

Backends == {"redis", "memory"}

\* a call of CacheManager.deletePattern(`<prefix>:*`); the frame keeps the
\* backend in `from` and the prefix in `pre`
CallDeletePattern(r, backend, prefix) ==
    /\ Free(r)
    /\ cache' = IF backend = "redis"
                THEN CacheDeletePattern(cache, prefix)
                ELSE memDeletePattern(cache, prefix)
    /\ SetReq(r, [Idle EXCEPT !.op = "CacheManager.deletePattern",
                              !.from = <<backend>>, !.pre = prefix])
    /\ now' = now + 1
    /\ UNCHANGED <<labels, nextId, blobs, storageOk, thumbnailCache, nm>>

InitPattern ==
    /\ req = [r \in Slots |-> Idle]
    /\ nm = NamingIdle
    /\ thumbnailCache = {}
    /\ now = 1
    /\ storageOk = TRUE
    /\ nextId = 1
    /\ labels = [id \in LabelIds |-> NoLabel]
    /\ blobs = {}
    /\ \E keys \in SUBSET PatternKeys : cache = {Entry(k, {}) : k \in keys}

NextPattern ==
    \E r \in Slots, backend \in Backends, prefix \in Patterns :
        CallDeletePattern(r, backend, prefix)

SpecPattern == InitPattern /\ [][NextPattern]_vars

\* C30: for every pattern `<prefix>:*` of the mutation handlers and every
\* set of stored keys, deletePattern deletes on either backend exactly the
\* keys that start with the prefix, the keys the glob match of the networked
\* backend selects.
C30_BackendsDeleteTheSameKeys ==
    [][\A r \in Slots :
        (req'[r] # req[r] /\ req'[r].op = "CacheManager.deletePattern") =>
            cache \ cache' = {e \in cache : HasPrefix(e.key, req'[r].pre)}]_vars

=============================================================================
